---------------------------- MODULE Spec2Model ----------------------------
(***************************************************************************)
(* A model of the seq-marked crate: the tombstone sum type Marked<D>, the  *)
(* sequenced marked value SeqMarked<D>, the sequence-only value            *)
(* SeqData<D>, the user-facing value SeqV<M, T>, their derived orderings   *)
(* and the conversions between them.                                       *)
(*                                                                         *)
(* The crate is a library of pure operations.  The state is what a caller  *)
(* holds: a receiver value, the name of the last operation called on it,   *)
(* the other argument of that call, what the call returned, and the        *)
(* arguments with which a caller-supplied closure was invoked during it.   *)
(*                                                                         *)
(* Generic code is modelled at the instantiations the crate's tests use:   *)
(* Spec has D = u64 (a small range of it), SpecMeta has                    *)
(* D = (Option<M>, T), SpecText has the payloads (Option<M>, Vec<u8>) and  *)
(* (Option<M>, String), SpecExpire has M = ExpirableImpl, and SpecSeqV has *)
(* the SeqV<M, T> of the same M and T as SpecMeta.  SpecSeqData has        *)
(* SeqData<u64>, SpecMax the maxima of SeqMarked<u64> and SeqData<u64>,    *)
(* and SpecFold the folds of SeqMarked::max over a sequence of operands.   *)
(***************************************************************************)
EXTENDS Integers, Sequences, FiniteSets, TLC

VARIABLES
    a,      \* the receiver, a SeqMarked<u64>
    m,      \* the receiver, a SeqMarked<(Option<M>, T)>
    op,     \* the last operation called
    arg,    \* its other argument (NoArg when it has none)
    ret,    \* what it returned
    calls,  \* the arguments the closure passed to it was invoked with
    sv,     \* the receiver, a SeqV<M, T>
    given   \* the value a constructor or setter last gave each field of sv

vars == <<a, m, op, arg, ret, calls, sv, given>>

---------------------------------------------------------------------------
(* Bounds of the model. *)

\* seq ranges over 0..MaxSeq
MaxSeq == 2
\* payloads of type D = u64 (and T) range over 0..MaxData
MaxData == 1
\* results of a closure D -> U range over 0..MaxOut
MaxOut == 1
\* metadata values M range over 0..MaxMeta
MaxMeta == 1
\* byte strings and texts have at most MaxLen elements
MaxLen == 2
\* u64::MAX: instants in milliseconds range over 0..U64Max
U64Max == 3
\* a fold of max has at most MaxFold operands
MaxFold == 3

SeqSet == 0..MaxSeq
DataSet == 0..MaxData
OutSet == 0..MaxOut
MetaSet == 0..MaxMeta
\* the errors E a fallible closure may return
ErrSet == {"e1", "e2"}

NoArg == <<>>

---------------------------------------------------------------------------
(* Values of the standard library the crate's types are built from. *)

\* Option<T>
None == [tag |-> "None"]
Some(v) == [tag |-> "Some", v |-> v]

\* Result<T, E>
Ok(v) == [tag |-> "Ok", v |-> v]
Err(e) == [tag |-> "Err", e |-> e]

\* the unit payload ()
Unit == <<>>

\* std::cmp::Ordering
Less == "Less"
Equal == "Equal"
Greater == "Greater"

\* Ord for u64
cmp_u64(x, y) == IF x < y THEN Less ELSE IF x = y THEN Equal ELSE Greater

\* Ord for (): all units are equal
cmp_unit(x, y) == Equal

---------------------------------------------------------------------------
(* Marked<D>: marked/mod.rs *)

Normal(d) == [tag |-> "Normal", data |-> d]
TombStone == [tag |-> "TombStone"]

\* A variant order with TombStone declared before Normal.
discriminant_tombstone_first(marked) == IF marked.tag = "Normal" THEN 1 ELSE 0

\* The discriminant of a variant is its position in the enum's declaration:
\* Normal is declared first, TombStone second.
discriminant(marked) == IF marked.tag = "Normal" THEN 0 ELSE 1

\* #[derive(PartialOrd, Ord)] on the enum with D = u64: compare the
\* discriminants, and the payloads when both are the same variant.
Marked_cmp(x, y) ==
    IF discriminant(x) # discriminant(y)
    THEN cmp_u64(discriminant(x), discriminant(y))
    ELSE IF x.tag = "Normal" THEN cmp_u64(x.data, y.data) ELSE Equal

\* The same derive with D = ().
Marked_cmp_unit(x, y) ==
    IF discriminant(x) # discriminant(y)
    THEN cmp_u64(discriminant(x), discriminant(y))
    ELSE IF x.tag = "Normal" THEN cmp_unit(x.data, y.data) ELSE Equal

---------------------------------------------------------------------------
(* InternalSeq: seq_marked/internal_seq.rs *)

InternalSeq_new(seq) == [seq |-> seq]

\* Deref for InternalSeq
InternalSeq_deref(s) == s.seq

\* derive(PartialOrd) for InternalSeq: operator <=
InternalSeq_le(x, y) == x.seq <= y.seq

\* What a call does: it returns a value or it panics.
Returns(v) == [tag |-> "Returns", v |-> v]
Panics == [tag |-> "Panics"]

\* `x + y` on u64.  A sum above u64::MAX panics in a build with overflow
\* checks ("attempt to add with overflow") and wraps around in a build
\* without them.
u64_add(x, y) ==
    IF x + y > U64Max
    THEN {Panics, Returns((x + y) % (U64Max + 1))}
    ELSE {Returns(x + y)}

\* Add<u64> for InternalSeq: `Self::new(self.seq + rhs)`
InternalSeq_add(self, rhs) ==
    {IF r = Panics THEN Panics ELSE Returns(InternalSeq_new(r.v)) :
        r \in u64_add(self.seq, rhs)}

\* AddAssign<u64> for InternalSeq: `self.seq += rhs`; the value returned is
\* the receiver after the call
InternalSeq_add_assign(self, rhs) ==
    {IF r = Panics THEN Panics ELSE Returns([self EXCEPT !.seq = r.v]) :
        r \in u64_add(self.seq, rhs)}

---------------------------------------------------------------------------
(* SeqMarked<D>: seq_marked/mod.rs *)

new(seq, marked) == [seq |-> seq, marked |-> marked]

new_normal(seq, data) == [seq |-> seq, marked |-> Normal(data)]

new_tombstone(seq) == [seq |-> seq, marked |-> TombStone]

\* An absent sentinel that is the tombstone of seq 1.
new_not_found_at_seq_one == [seq |-> 1, marked |-> TombStone]

new_not_found == [seq |-> 0, marked |-> TombStone]

is_tombstone(self) ==
    CASE self.marked.tag = "Normal" -> FALSE
      [] self.marked.tag = "TombStone" -> TRUE

\* A test that takes everything but the absent state for normal data.
is_normal_unless_absent(self) == ~(self.seq = 0 /\ is_tombstone(self))

is_normal(self) == ~is_tombstone(self)

\* An absence test that forgets the seq.
is_absent_any_seq(self) == is_tombstone(self)

is_absent(self) == self.seq = 0 /\ is_tombstone(self)

is_not_found(self) == is_absent(self)

\* A field order with marked declared before seq.
SeqMarked_cmp_marked_first(x, y) ==
    IF Marked_cmp(x.marked, y.marked) # Equal
    THEN Marked_cmp(x.marked, y.marked)
    ELSE cmp_u64(x.seq, y.seq)

\* #[derive(PartialOrd, Ord)] on the struct with D = u64: compare the fields
\* in declaration order, seq first and marked second.
SeqMarked_cmp(x, y) ==
    IF cmp_u64(x.seq, y.seq) # Equal
    THEN cmp_u64(x.seq, y.seq)
    ELSE Marked_cmp(x.marked, y.marked)

\* The same derive with D = (), the type of an order key.
OrderKey_cmp(x, y) ==
    IF cmp_u64(x.seq, y.seq) # Equal
    THEN cmp_u64(x.seq, y.seq)
    ELSE Marked_cmp_unit(x.marked, y.marked)

\* #[derive(PartialOrd)] on the struct with D = u64, a type that is Ord
SeqMarked_partial_cmp(x, y) == Some(SeqMarked_cmp(x, y))

\* the comparison operators PartialOrd gives SeqMarked<u64>
SeqMarked_lt(x, y) == SeqMarked_cmp(x, y) = Less
SeqMarked_le(x, y) == SeqMarked_cmp(x, y) # Greater
SeqMarked_gt(x, y) == SeqMarked_cmp(x, y) = Greater
SeqMarked_ge(x, y) == SeqMarked_cmp(x, y) # Less

\* and SeqMarked<()>
OrderKey_lt(x, y) == OrderKey_cmp(x, y) = Less
OrderKey_le(x, y) == OrderKey_cmp(x, y) # Greater
OrderKey_gt(x, y) == OrderKey_cmp(x, y) = Greater
OrderKey_ge(x, y) == OrderKey_cmp(x, y) # Less

\* SeqMarked::<()>::zero(), seq_marked/order_key.rs
zero == [seq |-> 0, marked |-> Normal(Unit)]

\* A largest order key that is a Normal.
max_value_normal == [seq |-> U64Max, marked |-> Normal(Unit)]

\* SeqMarked::<()>::max_value(), seq_marked/order_key.rs
max_value == [seq |-> U64Max, marked |-> TombStone]

\* A map that turns every tombstone into the absent value.
map_tombstone_to_not_found(self, f) ==
    CASE self.marked.tag = "Normal" ->
            [out |-> [seq |-> self.seq, marked |-> Normal(f[self.marked.data])],
             invoked |-> <<self.marked.data>>]
      [] self.marked.tag = "TombStone" ->
            [out |-> new_not_found, invoked |-> <<>>]

\* map(self, f): the value returned, and the arguments f was invoked with.
map(self, f) ==
    CASE self.marked.tag = "Normal" ->
            [out |-> [seq |-> self.seq, marked |-> Normal(f[self.marked.data])],
             invoked |-> <<self.marked.data>>]
      [] self.marked.tag = "TombStone" ->
            [out |-> [seq |-> self.seq, marked |-> TombStone],
             invoked |-> <<>>]

\* A try_map that hides f's error behind a tombstone.
try_map_error_to_tombstone(self, f) ==
    CASE self.marked.tag = "Normal" ->
            IF f[self.marked.data].tag = "Err"
            THEN [out |-> Ok([seq |-> self.seq, marked |-> TombStone]),
                  invoked |-> <<self.marked.data>>]
            ELSE [out |-> Ok([seq |-> self.seq,
                              marked |-> Normal(f[self.marked.data].v)]),
                  invoked |-> <<self.marked.data>>]
      [] self.marked.tag = "TombStone" ->
            [out |-> Ok([seq |-> self.seq, marked |-> TombStone]),
             invoked |-> <<>>]

\* try_map(self, f): `f(data)?` returns f's error from try_map at once.
try_map(self, f) ==
    CASE self.marked.tag = "Normal" ->
            IF f[self.marked.data].tag = "Err"
            THEN [out |-> Err(f[self.marked.data].e),
                  invoked |-> <<self.marked.data>>]
            ELSE [out |-> Ok([seq |-> self.seq,
                              marked |-> Normal(f[self.marked.data].v)]),
                  invoked |-> <<self.marked.data>>]
      [] self.marked.tag = "TombStone" ->
            [out |-> Ok([seq |-> self.seq, marked |-> TombStone]),
             invoked |-> <<>>]

\* An order key built from the seq the application sees.
order_key_of_user_seq(self) ==
    [seq |-> IF self.marked.tag = "TombStone" THEN 0 ELSE self.seq,
     marked |-> CASE self.marked.tag = "Normal" -> Normal(Unit)
                  [] self.marked.tag = "TombStone" -> TombStone]

order_key(self) ==
    [seq |-> self.seq,
     marked |-> CASE self.marked.tag = "Normal" -> Normal(Unit)
                  [] self.marked.tag = "TombStone" -> TombStone]

\* An internal seq that is 0 for a tombstone, as the user seq is.
internal_seq_of_user_seq(self) ==
    InternalSeq_new(IF is_tombstone(self) THEN 0 ELSE self.seq)

internal_seq(self) == InternalSeq_new(self.seq)

\* A user seq that shows the stored seq of a tombstone.
user_seq_raw(self) == self.seq

user_seq(self) == IF is_tombstone(self) THEN 0 ELSE self.seq

\* A max that compares the whole values, payloads included.
max_by_full_order(x, y) == IF SeqMarked_gt(x, y) THEN x ELSE y

\* A max that compares the seqs alone.
\* A maximum by the user seq, which is 0 for a tombstone.
max_by_user_seq(x, y) ==
    IF (IF is_tombstone(x) THEN 0 ELSE x.seq) > (IF is_tombstone(y) THEN 0 ELSE y.seq)
    THEN x ELSE y

max_by_seq(x, y) == IF x.seq > y.seq THEN x ELSE y

max(x, y) == IF OrderKey_gt(order_key(x), order_key(y)) THEN x ELSE y

\* max_ref takes and returns references: a reference is modelled by the
\* position of the operand it refers to.
max_ref(x, y) == IF OrderKey_gt(order_key(x), order_key(y)) THEN 1 ELSE 2

\* what a reference returned by max_ref(&x, &y) points to
deref(r, x, y) == IF r = 1 THEN x ELSE y

\* The results of folding `SeqMarked::max` over the operands s, which are in
\* some order, in every grouping: the operands are split in two parts, each
\* part is folded, and the maximum of the two results is taken.
RECURSIVE fold_max(_)
fold_max(s) ==
    IF Len(s) = 1
    THEN {s[1]}
    ELSE UNION {{max(x, y) : x \in fold_max(SubSeq(s, 1, k)),
                             y \in fold_max(SubSeq(s, k + 1, Len(s)))} :
                   k \in 1..(Len(s) - 1)}

into_parts(self) == <<self.seq, self.marked>>

---------------------------------------------------------------------------
(* SeqData<D>: seq_data/mod.rs, and its conversions from and to SeqMarked<D> *)

SeqData_new(seq, data) == [seq |-> seq, data |-> data]

SeqData_into_parts(self) == <<self.seq, self.data>>

\* A field order with data declared before seq.
SeqData_cmp_data_first(x, y) ==
    IF cmp_u64(x.data, y.data) # Equal
    THEN cmp_u64(x.data, y.data)
    ELSE cmp_u64(x.seq, y.seq)

\* #[derive(PartialOrd, Ord)] on the struct with D = u64: compare the fields
\* in declaration order, seq first and data second.
SeqData_cmp(x, y) ==
    IF cmp_u64(x.seq, y.seq) # Equal
    THEN cmp_u64(x.seq, y.seq)
    ELSE cmp_u64(x.data, y.data)

SeqData_order_key(self) == new_normal(self.seq, Unit)

SeqData_max(x, y) ==
    IF OrderKey_gt(SeqData_order_key(x), SeqData_order_key(y)) THEN x ELSE y

\* as max_ref of SeqMarked, the reference returned is the position of the
\* operand it refers to
SeqData_max_ref(x, y) ==
    IF OrderKey_gt(SeqData_order_key(x), SeqData_order_key(y)) THEN 1 ELSE 2

\* A conversion that drops the seq.
Option_SeqData_from_at_seq_zero(value) ==
    IF into_parts(value)[2].tag = "TombStone"
    THEN None
    ELSE Some(SeqData_new(0, into_parts(value)[2].data))

\* From<SeqMarked<D>> for Option<SeqData<D>>
Option_SeqData_from(value) ==
    LET seq == into_parts(value)[1]
        marked == into_parts(value)[2]
    IN  CASE marked.tag = "TombStone" -> None
          [] marked.tag = "Normal" -> Some(SeqData_new(seq, marked.data))

\* From<SeqData<D>> for SeqMarked<D>
SeqMarked_from_SeqData(value) ==
    LET seq == SeqData_into_parts(value)[1]
        data == SeqData_into_parts(value)[2]
    IN  new_normal(seq, data)

---------------------------------------------------------------------------
(* SeqV<M, T>: seqv/mod.rs, and its conversions from and to                *)
(* SeqMarked<(Option<M>, T)>, whose payload is the pair <<meta, data>>     *)

SeqV_new(seq, data) == [seq |-> seq, meta |-> None, data |-> data]

SeqV_new_with_meta(seq, meta, data) ==
    [seq |-> seq, meta |-> meta, data |-> data]

\* #[derive(Default)]: the defaults of u64, Option<M> and T = u64
SeqV_default == [seq |-> 0, meta |-> None, data |-> 0]

\* A setter that builds its result with SeqV::new, which has no metadata.
with_seq_by_new(self, seq) == SeqV_new(seq, self.data)

with_seq(self, seq) == [self EXCEPT !.seq = seq]

with_meta(self, meta) == [self EXCEPT !.meta = meta]

with_value(self, data) == [self EXCEPT !.data = data]

\* DerefMut for SeqV: `&mut self.data`; the SeqV after the caller has
\* written data through the reference, `*self = data`
SeqV_deref_mut(self, data) == [self EXCEPT !.data = data]

\* A map that builds its result with SeqV::new, which has no metadata.
SeqV_map_by_new(self, f) ==
    [out |-> SeqV_new(self.seq, f[self.data]), invoked |-> <<self.data>>]

\* SeqV::map(self, f): the value returned, and the arguments f was
\* invoked with.
SeqV_map(self, f) ==
    [out |-> [seq |-> self.seq, meta |-> self.meta, data |-> f[self.data]],
     invoked |-> <<self.data>>]

\* SeqV::try_map(self, f): `f(self.data)?` returns f's error from try_map
\* at once.
SeqV_try_map(self, f) ==
    IF f[self.data].tag = "Err"
    THEN [out |-> Err(f[self.data].e), invoked |-> <<self.data>>]
    ELSE [out |-> Ok([seq |-> self.seq, meta |-> self.meta,
                      data |-> f[self.data].v]),
          invoked |-> <<self.data>>]

\* A conversion that builds the SeqV with SeqV::new, which has no metadata.
Option_SeqV_from_without_meta(value) ==
    IF into_parts(value)[2].tag = "TombStone"
    THEN None
    ELSE Some(SeqV_new(into_parts(value)[1], into_parts(value)[2].data[2]))

\* From<SeqMarked<(Option<M>, T)>> for Option<SeqV<M, T>>
Option_SeqV_from(value) ==
    LET seq == into_parts(value)[1]
        marked == into_parts(value)[2]
    IN  CASE marked.tag = "TombStone" -> None
          [] marked.tag = "Normal" ->
                Some(SeqV_new_with_meta(seq, marked.data[1], marked.data[2]))

\* From<SeqV<M, T>> for SeqMarked<(Option<M>, T)>
SeqMarked_from_SeqV(value) ==
    new_normal(value.seq, <<value.meta, value.data>>)

\* A conversion that builds the SeqV with SeqV::new, which has no metadata.
SeqV_from_SeqData_without_meta(value) ==
    SeqV_new(SeqData_into_parts(value)[1], SeqData_into_parts(value)[2][2])

\* From<SeqData<(Option<M>, T)>> for SeqV<M, T>
SeqV_from_SeqData(value) ==
    LET seq == SeqData_into_parts(value)[1]
        meta == SeqData_into_parts(value)[2][1]
        v == SeqData_into_parts(value)[2][2]
    IN  SeqV_new_with_meta(seq, meta, v)

\* From<SeqV<M, T>> for SeqData<(Option<M>, T)>
SeqData_from_SeqV(value) ==
    SeqData_new(value.seq, <<value.meta, value.data>>)

---------------------------------------------------------------------------
(* Vec<u8> and String.  A Vec<u8> is a sequence of bytes, a String is a    *)
(* sequence of chars (Unicode scalar values); String::from_utf8 decodes    *)
(* the first from UTF-8 and String::into_bytes encodes the second.         *)

\* the number of bytes of the UTF-8 sequence that the byte b starts, 0 when
\* no sequence starts with b
utf8_char_width(b) ==
    IF b < 128 THEN 1
    ELSE IF b >= 194 /\ b <= 223 THEN 2
    ELSE IF b >= 224 /\ b <= 239 THEN 3
    ELSE IF b >= 240 /\ b <= 244 THEN 4
    ELSE 0

utf8_is_continuation(b) == b >= 128 /\ b <= 191

\* the second byte excludes overlong forms, surrogates and chars above
\* U+10FFFF
utf8_second_byte_ok(b1, b2) ==
    CASE b1 = 224 -> b2 >= 160 /\ b2 <= 191
      [] b1 = 237 -> b2 >= 128 /\ b2 <= 159
      [] b1 = 240 -> b2 >= 144 /\ b2 <= 191
      [] b1 = 244 -> b2 >= 128 /\ b2 <= 143
      [] OTHER -> utf8_is_continuation(b2)

\* bytes starts with a well-formed sequence of w bytes
utf8_first_char_ok(bytes, w) ==
    /\ w > 0
    /\ Len(bytes) >= w
    /\ w >= 2 => utf8_second_byte_ok(bytes[1], bytes[2])
    /\ \A i \in 3..w : utf8_is_continuation(bytes[i])

\* the length of the longest well-formed prefix of bytes
RECURSIVE utf8_valid_up_to(_)
utf8_valid_up_to(bytes) ==
    IF bytes = <<>> THEN 0
    ELSE LET w == utf8_char_width(bytes[1])
         IN  IF utf8_first_char_ok(bytes, w)
             THEN w + utf8_valid_up_to(SubSeq(bytes, w + 1, Len(bytes)))
             ELSE 0

\* the char that the first w bytes encode
utf8_first_char(bytes, w) ==
    CASE w = 1 -> bytes[1]
      [] w = 2 -> (bytes[1] - 192) * 64 + (bytes[2] - 128)
      [] w = 3 -> (bytes[1] - 224) * 4096 + (bytes[2] - 128) * 64
                      + (bytes[3] - 128)
      [] w = 4 -> (bytes[1] - 240) * 262144 + (bytes[2] - 128) * 4096
                      + (bytes[3] - 128) * 64 + (bytes[4] - 128)

\* the chars of a well-formed byte string
RECURSIVE utf8_chars(_)
utf8_chars(bytes) ==
    IF bytes = <<>> THEN <<>>
    ELSE LET w == utf8_char_width(bytes[1])
         IN  <<utf8_first_char(bytes, w)>>
                 \o utf8_chars(SubSeq(bytes, w + 1, Len(bytes)))

\* String::from_utf8: the text, or the FromUtf8Error of the first bad byte
String_from_utf8(vec) ==
    IF utf8_valid_up_to(vec) = Len(vec)
    THEN Ok(utf8_chars(vec))
    ELSE Err([valid_up_to |-> utf8_valid_up_to(vec)])

\* char::encode_utf8
encode_utf8(c) ==
    IF c < 128 THEN <<c>>
    ELSE IF c < 2048 THEN <<192 + c \div 64, 128 + (c % 64)>>
    ELSE IF c < 65536
    THEN <<224 + c \div 4096, 128 + ((c \div 64) % 64), 128 + (c % 64)>>
    ELSE <<240 + c \div 262144, 128 + ((c \div 4096) % 64),
           128 + ((c \div 64) % 64), 128 + (c % 64)>>

\* An encoding that writes one byte for every char.
RECURSIVE String_into_bytes_one_byte_per_char(_)
String_into_bytes_one_byte_per_char(s) ==
    IF s = <<>> THEN <<>>
    ELSE <<s[1] % 256>>
             \o String_into_bytes_one_byte_per_char(SubSeq(s, 2, Len(s)))

\* String::into_bytes
RECURSIVE String_into_bytes(_)
String_into_bytes(s) ==
    IF s = <<>> THEN <<>>
    ELSE encode_utf8(s[1]) \o String_into_bytes(SubSeq(s, 2, Len(s)))

\* io::Error::new(kind, error)
io_Error_new(kind, error) == [kind |-> kind, error |-> error]

---------------------------------------------------------------------------
(* The conversions between the byte form and the text form of a payload:   *)
(* marked/impl_try_from_meta_bytes.rs, seq_marked/impl_try_from_meta_bytes.rs *)

\* A conversion that replaces bytes it cannot decode by U+FFFD.
Marked_String_try_from_lossy(marked) ==
    IF marked = TombStone THEN Ok(TombStone)
    ELSE IF String_from_utf8(marked.data[2]).tag = "Err"
    THEN Ok(Normal(<<marked.data[1], <<65533>>>>))
    ELSE Ok(Normal(<<marked.data[1], String_from_utf8(marked.data[2]).v>>))

\* TryFrom<Marked<(Option<M>, Vec<u8>)>> for Marked<(Option<M>, String)>
Marked_String_try_from(marked) ==
    IF marked = TombStone THEN Ok(TombStone)
    ELSE LET meta == marked.data[1]
             value == marked.data[2]
             s == String_from_utf8(value)
         IN  IF s.tag = "Err"
             THEN Err(io_Error_new("InvalidData",
                      <<"fail to convert Vec<u8> to String: ", s.e>>))
             ELSE Ok(Normal(<<meta, s.v>>))

\* From<Marked<(Option<M>, String)>> for Marked<(Option<M>, Vec<u8>)>
Marked_Bytes_from(value) ==
    IF value = TombStone THEN TombStone
    ELSE LET meta == value.data[1]
             v == String_into_bytes(value.data[2])
         IN  Normal(<<meta, v>>)

\* TryFrom<SeqMarked<(Option<M>, Vec<u8>)>> for SeqMarked<(Option<M>, String)>
SeqMarked_String_try_from(value) ==
    LET seq == into_parts(value)[1]
        marked == Marked_String_try_from(into_parts(value)[2])
    IN  IF marked.tag = "Err" THEN marked
        ELSE Ok(new(seq, marked.v))

\* From<SeqMarked<(Option<M>, String)>> for SeqMarked<(Option<M>, Vec<u8>)>
SeqMarked_Bytes_from(value) ==
    LET seq == into_parts(value)[1]
        marked == Marked_Bytes_from(into_parts(value)[2])
    IN  new(seq, marked)

---------------------------------------------------------------------------
(* SeqValue<M, V>: seq_value_trait.rs, and its implementations for         *)
(* SeqMarked<(Option<M>, T)>, SeqV<M, V> and Option<SeqV<M, V>>.           *)
(* A shared reference &x is the value Ref(x).                              *)

Ref(x) == [ref |-> x]

\* Option::as_ref
Option_as_ref(o) == IF o = None THEN None ELSE Some(Ref(o.v))

data_ref(self) ==
    CASE self.marked.tag = "Normal" -> Some(Ref(self.marked.data))
      [] self.marked.tag = "TombStone" -> None

into_data(self) ==
    CASE self.marked.tag = "Normal" -> Some(self.marked.data)
      [] self.marked.tag = "TombStone" -> None

\* A borrowed view that has the seq the application sees.
as_ref_at_user_seq(self) ==
    [seq |-> user_seq(self),
     marked |-> CASE self.marked.tag = "Normal" -> Normal(Ref(self.marked.data))
                  [] self.marked.tag = "TombStone" -> TombStone]

\* SeqMarked::as_ref: a SeqMarked<&D>
as_ref(self) ==
    [seq |-> self.seq,
     marked |-> CASE self.marked.tag = "Normal" -> Normal(Ref(self.marked.data))
                  [] self.marked.tag = "TombStone" -> TombStone]

\* SeqMarked<&D>::cloned: map with the closure |d| d.clone(), D = u64
cloned(self) == map(self, [r \in {Ref(d) : d \in DataSet} |-> r.ref]).out

\* A seq that is the stored seq, of a tombstone too.
SeqMarked_seq_stored(self) == self.seq

\* impl SeqValue<M, T> for SeqMarked<(Option<M>, T)>
SeqMarked_seq(self) == user_seq(self)

SeqMarked_value(self) ==
    IF data_ref(self) = None THEN None
    ELSE Some(Ref(data_ref(self).v.ref[2]))

SeqMarked_into_value(self) ==
    IF into_data(self) = None THEN None
    ELSE Some(into_data(self).v[2])

\* A meta of a SeqMarked that is never there.
SeqMarked_meta_none(self) == None

SeqMarked_meta(self) ==
    IF data_ref(self) = None THEN None
    ELSE Option_as_ref(data_ref(self).v.ref[1])

\* impl SeqValue<M, V> for SeqV<M, V>
SeqV_seq(self) == self.seq

SeqV_value(self) == Some(Ref(self.data))

SeqV_into_value(self) == Some(self.data)

SeqV_meta(self) == Option_as_ref(self.meta)

\* A seq of Option<SeqV> that is 1 when there is no SeqV.
OptionSeqV_seq_or_one(self) ==
    IF Option_as_ref(self) = None THEN 1
    ELSE SeqV_seq(Option_as_ref(self).v.ref)

\* impl SeqValue<M, V> for Option<SeqV<M, V>>
OptionSeqV_seq(self) ==
    IF Option_as_ref(self) = None THEN 0
    ELSE SeqV_seq(Option_as_ref(self).v.ref)

OptionSeqV_value(self) ==
    IF Option_as_ref(self) = None THEN None
    ELSE SeqV_value(Option_as_ref(self).v.ref)

OptionSeqV_into_value(self) ==
    IF self = None THEN None ELSE Some(self.v.data)

OptionSeqV_meta(self) ==
    IF Option_as_ref(self) = None THEN None
    ELSE SeqV_meta(Option_as_ref(self).v.ref)

\* The provided method unpack of the trait, at each implementation.
SeqMarked_unpack(self) == <<SeqMarked_seq(self), SeqMarked_into_value(self)>>

SeqV_unpack(self) == <<SeqV_seq(self), SeqV_into_value(self)>>

OptionSeqV_unpack(self) ==
    <<OptionSeqV_seq(self), OptionSeqV_into_value(self)>>

---------------------------------------------------------------------------
(* Expirable: expirable/mod.rs, expirable/expirable_impl.rs, and the       *)
(* metadata type ExpirableImpl of testing.rs.  A trait method called on a  *)
(* value runs the implementation of the value's type, which the shape of   *)
(* the value tells: an ExpirableImpl has the field expires_at_ms, a        *)
(* reference the field ref and an Option the field tag.                    *)

\* Option::unwrap_or
Option_unwrap_or(o, default) == IF o = None THEN default ELSE o.v

ExpirableImpl(expires_at_ms) == [expires_at_ms |-> expires_at_ms]

\* impl Expirable for ExpirableImpl
ExpirableImpl_expires_at_ms_opt(self) == self.expires_at_ms

RECURSIVE Expirable_expires_at_ms_opt(_)

\* impl Expirable for &T
Ref_expires_at_ms_opt(self) == Expirable_expires_at_ms_opt(self.ref)

\* An implementation for Option<T> in which None expires at u64::MAX.
Option_expires_at_ms_opt_none_is_max(self) ==
    IF Option_as_ref(self) = None THEN Some(U64Max)
    ELSE Expirable_expires_at_ms_opt(Option_as_ref(self).v)

\* impl Expirable for Option<T>
Option_expires_at_ms_opt(self) ==
    IF Option_as_ref(self) = None THEN None
    ELSE Expirable_expires_at_ms_opt(Option_as_ref(self).v)

\* Expirable::expires_at_ms_opt of the type of self
Expirable_expires_at_ms_opt(self) ==
    CASE "expires_at_ms" \in DOMAIN self -> ExpirableImpl_expires_at_ms_opt(self)
      [] "ref" \in DOMAIN self -> Ref_expires_at_ms_opt(self)
      [] "tag" \in DOMAIN self -> Option_expires_at_ms_opt(self)

\* Expirable::expires_at_ms, which no implementation overrides
Expirable_expires_at_ms(self) ==
    Option_unwrap_or(Expirable_expires_at_ms_opt(self), U64Max)

---------------------------------------------------------------------------
(* The methods SeqValue provides when M: Expirable, and the implementor    *)
(* SeqValueImpl of testing.rs.                                             *)

\* impl SeqValue<ExpirableImpl, u64> for SeqValueImpl
SeqValueImpl(seq, value, meta) == [seq |-> seq, value |-> value, meta |-> meta]

SeqValueImpl_seq(self) == self.seq

SeqValueImpl_value(self) == Option_as_ref(self.value)

SeqValueImpl_into_value(self) == self.value

SeqValueImpl_meta(self) == Option_as_ref(self.meta)

\* SeqValue::meta of the type of self: a SeqMarked has the field marked, a
\* SeqV the field data, a SeqValueImpl the field value, an Option the field tag
SeqValue_meta(self) ==
    CASE "marked" \in DOMAIN self -> SeqMarked_meta(self)
      [] "data" \in DOMAIN self -> SeqV_meta(self)
      [] "value" \in DOMAIN self -> SeqValueImpl_meta(self)
      [] "tag" \in DOMAIN self -> OptionSeqV_meta(self)

\* SeqValue::seq, value and into_value of the type of self
SeqValue_seq(self) ==
    CASE "marked" \in DOMAIN self -> SeqMarked_seq(self)
      [] "data" \in DOMAIN self -> SeqV_seq(self)
      [] "value" \in DOMAIN self -> SeqValueImpl_seq(self)
      [] "tag" \in DOMAIN self -> OptionSeqV_seq(self)

SeqValue_value(self) ==
    CASE "marked" \in DOMAIN self -> SeqMarked_value(self)
      [] "data" \in DOMAIN self -> SeqV_value(self)
      [] "value" \in DOMAIN self -> SeqValueImpl_value(self)
      [] "tag" \in DOMAIN self -> OptionSeqV_value(self)

SeqValue_into_value(self) ==
    CASE "marked" \in DOMAIN self -> SeqMarked_into_value(self)
      [] "data" \in DOMAIN self -> SeqV_into_value(self)
      [] "value" \in DOMAIN self -> SeqValueImpl_into_value(self)
      [] "tag" \in DOMAIN self -> OptionSeqV_into_value(self)

\* the provided method `(self.seq(), self.into_value())`
SeqValue_unpack(self) == <<SeqValue_seq(self), SeqValue_into_value(self)>>

SeqValue_expires_at_ms_opt(self) ==
    IF SeqValue_meta(self) = None THEN None
    ELSE Expirable_expires_at_ms_opt(SeqValue_meta(self).v)

\* An expiration that is 0 when there is none.
SeqValue_expires_at_ms_or_zero(self) ==
    Option_unwrap_or(Expirable_expires_at_ms_opt(SeqValue_meta(self)), 0)

SeqValue_expires_at_ms(self) == Expirable_expires_at_ms(SeqValue_meta(self))

\* An expiry test that counts the instant of expiration as expired.
SeqValue_is_expired_at_instant(self, now_ms) ==
    SeqValue_expires_at_ms(self) <= now_ms

SeqValue_is_expired(self, now_ms) == SeqValue_expires_at_ms(self) < now_ms

---------------------------------------------------------------------------
(* The values a caller can construct. *)

SeqMarkedSet ==
    {new_normal(s, d) : s \in SeqSet, d \in DataSet}
        \cup {new_tombstone(s) : s \in SeqSet}

SeqDataSet == {SeqData_new(s, d) : s \in SeqSet, d \in DataSet}

\* Option<M>
OptMetaSet == {None} \cup {Some(x) : x \in MetaSet}

\* the payloads (Option<M>, T)
MetaDataSet == OptMetaSet \X DataSet

SeqVSet ==
    {SeqV_new_with_meta(s, mt, d) : s \in SeqSet, mt \in OptMetaSet, d \in DataSet}

\* Option<SeqV<M, T>>
OptSeqVSet == {None} \cup {Some(v) : v \in SeqVSet}

\* instants in milliseconds
TimeSet == 0..U64Max

\* the metadata ExpirableImpl, and Option<ExpirableImpl>
ExpirableImplSet ==
    {ExpirableImpl(None)} \cup {ExpirableImpl(Some(t)) : t \in TimeSet}
OptExpirableImplSet == {None} \cup {Some(e) : e \in ExpirableImplSet}

\* the implementors of SeqValue<ExpirableImpl, T>
ImplSet == {"SeqMarked", "SeqV", "Option<SeqV>", "SeqValueImpl"}

\* the SeqV<ExpirableImpl, T>
ExpSeqVSet ==
    {SeqV_new_with_meta(s, mt, d) :
        s \in SeqSet, mt \in OptExpirableImplSet, d \in DataSet}

\* the values of an implementor
SeqValueSet(i) ==
    CASE i = "SeqMarked" ->
             {new_tombstone(s) : s \in SeqSet}
                 \cup {new_normal(s, <<mt, d>>) :
                          s \in SeqSet, mt \in OptExpirableImplSet, d \in DataSet}
      [] i = "SeqV" -> ExpSeqVSet
      [] i = "Option<SeqV>" -> {None} \cup {Some(v) : v \in ExpSeqVSet}
      [] i = "SeqValueImpl" ->
             {SeqValueImpl(s, None, mt) :
                 s \in SeqSet, mt \in OptExpirableImplSet}
                 \cup {SeqValueImpl(s, Some(d), mt) :
                          s \in SeqSet, d \in DataSet, mt \in OptExpirableImplSet}

\* the Expirable types built on ExpirableImpl
WrapSet == {"T", "&T", "Option<T>", "Option<&T>"}

\* the values of an Expirable type
ExpirableSet(w) ==
    CASE w = "T" -> ExpirableImplSet
      [] w = "&T" -> {Ref(e) : e \in ExpirableImplSet}
      [] w = "Option<T>" -> OptExpirableImplSet
      [] w = "Option<&T>" -> {None} \cup {Some(Ref(e)) : e \in ExpirableImplSet}

\* the values SeqData<(Option<M>, T)>
MetaSeqDataSet == {SeqData_new(s, md) : s \in SeqSet, md \in MetaDataSet}

\* bytes: 'A', the continuation byte 0x80, the lead byte 0xC0 of an overlong
\* form, the lead byte 0xC3, and 0xFF, which no UTF-8 text holds
ByteSet == {65, 128, 192, 195, 255}
\* the chars whose UTF-8 encoding is made of these bytes: 'A' and U+00C0,
\* which is the two bytes 0xC3 0x80
CharSet == {65, 192}
\* Vec<u8>
BytesSet == UNION {[1..n -> ByteSet] : n \in 0..MaxLen}
\* String
StringSet == UNION {[1..n -> CharSet] : n \in 0..MaxLen}
\* Marked<(Option<M>, Vec<u8>)> and Marked<(Option<M>, String)>
MarkedBytesSet ==
    {TombStone} \cup {Normal(<<mt, v>>) : mt \in OptMetaSet, v \in BytesSet}
MarkedStringSet ==
    {TombStone} \cup {Normal(<<mt, s>>) : mt \in OptMetaSet, s \in StringSet}
\* SeqMarked<(Option<M>, Vec<u8>)> and SeqMarked<(Option<M>, String)>
SeqMarkedBytesSet == {new(s, mk) : s \in SeqSet, mk \in MarkedBytesSet}
SeqMarkedStringSet == {new(s, mk) : s \in SeqSet, mk \in MarkedStringSet}

\* the SeqMarked<u64> of every seq of SeqSet and of the seq u64::MAX
SeqMarkedU64Set ==
    {new_normal(s, d) : s \in SeqSet \cup {U64Max}, d \in DataSet}
        \cup {new_tombstone(s) : s \in SeqSet \cup {U64Max}}

\* u64
U64Set == 0..U64Max

\* closures D -> U
FnSet == [DataSet -> OutSet]

\* closures D -> Result<U, E>
TryFnSet == [DataSet -> {Ok(u) : u \in OutSet} \cup {Err(e) : e \in ErrSet}]

---------------------------------------------------------------------------
(* The state after nothing has been called. *)

Init ==
    /\ a = new_not_found
    /\ m = new_not_found
    /\ op = "init"
    /\ arg = NoArg
    /\ ret = NoArg
    /\ calls = <<>>
    /\ sv = SeqV_default
    /\ given = [seq |-> 0, meta |-> None, data |-> 0]

(* Constructors: the caller replaces the receiver it holds. *)

New ==
    \E s \in SeqSet :
        \E mk \in {Normal(d) : d \in DataSet} \cup {TombStone} :
            /\ a' = new(s, mk)
            /\ op' = "new"
            /\ arg' = <<s, mk>>
            /\ ret' = new(s, mk)
            /\ calls' = <<>>
            /\ UNCHANGED <<m, sv, given>>

NewNormal ==
    \E s \in SeqSet, d \in DataSet :
        /\ a' = new_normal(s, d)
        /\ op' = "new_normal"
        /\ arg' = <<s, d>>
        /\ ret' = new_normal(s, d)
        /\ calls' = <<>>
        /\ UNCHANGED <<m, sv, given>>

NewTombstone ==
    \E s \in SeqSet :
        /\ a' = new_tombstone(s)
        /\ op' = "new_tombstone"
        /\ arg' = <<s>>
        /\ ret' = new_tombstone(s)
        /\ calls' = <<>>
        /\ UNCHANGED <<m, sv, given>>

NewNotFound ==
    /\ a' = new_not_found
    /\ op' = "new_not_found"
    /\ arg' = NoArg
    /\ ret' = new_not_found
    /\ calls' = <<>>
    /\ UNCHANGED <<m, sv, given>>

(* Comparisons of the receiver with another value. *)

Cmp ==
    \E b \in SeqMarkedSet :
        /\ op' = "cmp"
        /\ arg' = b
        /\ ret' = SeqMarked_cmp(a, b)
        /\ calls' = <<>>
        /\ UNCHANGED <<a, m, sv, given>>

PartialCmp ==
    \E b \in SeqMarkedSet :
        /\ op' = "partial_cmp"
        /\ arg' = b
        /\ ret' = SeqMarked_partial_cmp(a, b)
        /\ calls' = <<>>
        /\ UNCHANGED <<a, m, sv, given>>

Lt ==
    \E b \in SeqMarkedSet :
        /\ op' = "lt"
        /\ arg' = b
        /\ ret' = SeqMarked_lt(a, b)
        /\ calls' = <<>>
        /\ UNCHANGED <<a, m, sv, given>>

Le ==
    \E b \in SeqMarkedSet :
        /\ op' = "le"
        /\ arg' = b
        /\ ret' = SeqMarked_le(a, b)
        /\ calls' = <<>>
        /\ UNCHANGED <<a, m, sv, given>>

Gt ==
    \E b \in SeqMarkedSet :
        /\ op' = "gt"
        /\ arg' = b
        /\ ret' = SeqMarked_gt(a, b)
        /\ calls' = <<>>
        /\ UNCHANGED <<a, m, sv, given>>

(* Accessors. *)

InternalSeq ==
    /\ op' = "internal_seq"
    /\ arg' = NoArg
    /\ ret' = internal_seq(a)
    /\ calls' = <<>>
    /\ UNCHANGED <<a, m, sv, given>>

UserSeq ==
    /\ op' = "user_seq"
    /\ arg' = NoArg
    /\ ret' = user_seq(a)
    /\ calls' = <<>>
    /\ UNCHANGED <<a, m, sv, given>>

IsAbsent ==
    /\ op' = "is_absent"
    /\ arg' = NoArg
    /\ ret' = is_absent(a)
    /\ calls' = <<>>
    /\ UNCHANGED <<a, m, sv, given>>

IsNotFound ==
    /\ op' = "is_not_found"
    /\ arg' = NoArg
    /\ ret' = is_not_found(a)
    /\ calls' = <<>>
    /\ UNCHANGED <<a, m, sv, given>>

OrderKey ==
    /\ op' = "order_key"
    /\ arg' = NoArg
    /\ ret' = order_key(a)
    /\ calls' = <<>>
    /\ UNCHANGED <<a, m, sv, given>>

\* `a.order_key() == b.order_key()`, with the derived PartialEq of SeqMarked<()>
OrderKeyEq ==
    \E b \in SeqMarkedSet :
        /\ op' = "order_key_eq"
        /\ arg' = b
        /\ ret' = (order_key(a) = order_key(b))
        /\ calls' = <<>>
        /\ UNCHANGED <<a, m, sv, given>>

\* `SeqMarked::zero() <= x.order_key()`
ZeroLe ==
    \E x \in SeqMarkedU64Set :
        /\ op' = "zero_le_order_key"
        /\ arg' = x
        /\ ret' = OrderKey_le(zero, order_key(x))
        /\ calls' = <<>>
        /\ UNCHANGED <<a, m, sv, given>>

\* `x.order_key() <= SeqMarked::max_value()`
LeMaxValue ==
    \E x \in SeqMarkedU64Set :
        /\ op' = "order_key_le_max_value"
        /\ arg' = x
        /\ ret' = OrderKey_le(order_key(x), max_value)
        /\ calls' = <<>>
        /\ UNCHANGED <<a, m, sv, given>>

(* Transformations of the payload by a closure of the caller. *)

Map ==
    \E f \in FnSet :
        /\ op' = "map"
        /\ arg' = f
        /\ ret' = map(a, f).out
        /\ calls' = map(a, f).invoked
        /\ UNCHANGED <<a, m, sv, given>>

TryMap ==
    \E f \in TryFnSet :
        /\ op' = "try_map"
        /\ arg' = f
        /\ ret' = try_map(a, f).out
        /\ calls' = try_map(a, f).invoked
        /\ UNCHANGED <<a, m, sv, given>>

(* The larger of the receiver and another value. *)

Max ==
    \E b \in SeqMarkedSet :
        /\ op' = "max"
        /\ arg' = b
        /\ ret' = max(a, b)
        /\ calls' = <<>>
        /\ UNCHANGED <<a, m, sv, given>>

MaxRef ==
    \E b \in SeqMarkedSet :
        /\ op' = "max_ref"
        /\ arg' = b
        /\ ret' = max_ref(a, b)
        /\ calls' = <<>>
        /\ UNCHANGED <<a, m, sv, given>>

(* Presence accessors and the parts of the receiver. *)

IsNormal ==
    /\ op' = "is_normal"
    /\ arg' = NoArg
    /\ ret' = is_normal(a)
    /\ calls' = <<>>
    /\ UNCHANGED <<a, m, sv, given>>

IsTombstone ==
    /\ op' = "is_tombstone"
    /\ arg' = NoArg
    /\ ret' = is_tombstone(a)
    /\ calls' = <<>>
    /\ UNCHANGED <<a, m, sv, given>>

DataRef ==
    /\ op' = "data_ref"
    /\ arg' = NoArg
    /\ ret' = data_ref(a)
    /\ calls' = <<>>
    /\ UNCHANGED <<a, m, sv, given>>

IntoData ==
    /\ op' = "into_data"
    /\ arg' = NoArg
    /\ ret' = into_data(a)
    /\ calls' = <<>>
    /\ UNCHANGED <<a, m, sv, given>>

IntoParts ==
    /\ op' = "into_parts"
    /\ arg' = NoArg
    /\ ret' = into_parts(a)
    /\ calls' = <<>>
    /\ UNCHANGED <<a, m, sv, given>>

(* The borrowed view of the receiver, and the clone of that view. *)

AsRef ==
    /\ op' = "as_ref"
    /\ arg' = NoArg
    /\ ret' = as_ref(a)
    /\ calls' = <<>>
    /\ UNCHANGED <<a, m, sv, given>>

\* `a.as_ref().cloned()`: cloned() is called on what as_ref() returned
Cloned ==
    /\ op = "as_ref"
    /\ op' = "cloned"
    /\ arg' = NoArg
    /\ ret' = cloned(ret)
    /\ calls' = <<>>
    /\ UNCHANGED <<a, m, sv, given>>

(* Arithmetic on an InternalSeq, which is the first argument of the call. *)

\* `seq + rhs`
Add ==
    \E s \in U64Set, rhs \in U64Set :
        \E out \in InternalSeq_add(InternalSeq_new(s), rhs) :
            /\ op' = "add"
            /\ arg' = <<InternalSeq_new(s), rhs>>
            /\ ret' = out
            /\ calls' = <<>>
            /\ UNCHANGED <<a, m, sv, given>>

\* `seq += rhs`
AddAssign ==
    \E s \in U64Set, rhs \in U64Set :
        \E out \in InternalSeq_add_assign(InternalSeq_new(s), rhs) :
            /\ op' = "add_assign"
            /\ arg' = <<InternalSeq_new(s), rhs>>
            /\ ret' = out
            /\ calls' = <<>>
            /\ UNCHANGED <<a, m, sv, given>>

(* Conversions between SeqMarked<D> and SeqData<D>. *)

\* `let x: Option<SeqData<D>> = a.into()`
IntoOptionSeqData ==
    /\ op' = "into_option_seq_data"
    /\ arg' = NoArg
    /\ ret' = Option_SeqData_from(a)
    /\ calls' = <<>>
    /\ UNCHANGED <<a, m, sv, given>>

\* `let x: SeqMarked<D> = seq_data.into()`
FromSeqData ==
    \E sd \in SeqDataSet :
        /\ op' = "from_seq_data"
        /\ arg' = sd
        /\ ret' = SeqMarked_from_SeqData(sd)
        /\ calls' = <<>>
        /\ UNCHANGED <<a, m, sv, given>>

Next ==
    \/ New
    \/ NewNormal
    \/ NewTombstone
    \/ NewNotFound
    \/ Cmp
    \/ PartialCmp
    \/ Lt
    \/ Gt
    \/ InternalSeq
    \/ UserSeq
    \/ IsAbsent
    \/ IsNotFound
    \/ OrderKey
    \/ OrderKeyEq
    \/ Map
    \/ TryMap
    \/ Max
    \/ MaxRef
    \/ IntoOptionSeqData
    \/ FromSeqData
    \/ IsNormal
    \/ IsTombstone
    \/ DataRef
    \/ IntoData
    \/ IntoParts
    \/ ZeroLe
    \/ LeMaxValue
    \/ AsRef
    \/ Cloned
    \/ Le
    \/ Add
    \/ AddAssign

Spec == Init /\ [][Next]_vars

---------------------------------------------------------------------------
(* The operations on a SeqMarked<(Option<M>, T)>, the form in which a      *)
(* storage engine keeps what the application sees as a SeqV<M, T>.         *)

MetaNewNormal ==
    \E s \in SeqSet, md \in MetaDataSet :
        /\ m' = new_normal(s, md)
        /\ op' = "new_normal"
        /\ arg' = <<s, md>>
        /\ ret' = new_normal(s, md)
        /\ calls' = <<>>
        /\ UNCHANGED <<a, sv, given>>

MetaNewTombstone ==
    \E s \in SeqSet :
        /\ m' = new_tombstone(s)
        /\ op' = "new_tombstone"
        /\ arg' = <<s>>
        /\ ret' = new_tombstone(s)
        /\ calls' = <<>>
        /\ UNCHANGED <<a, sv, given>>

\* `let x: Option<SeqV<M, T>> = m.into()`
MetaIntoOptionSeqV ==
    /\ op' = "into_option_seqv"
    /\ arg' = NoArg
    /\ ret' = Option_SeqV_from(m)
    /\ calls' = <<>>
    /\ UNCHANGED <<a, m, sv, given>>

\* `let x: SeqMarked<(Option<M>, T)> = seqv.into()`
MetaFromSeqV ==
    \E v \in SeqVSet :
        /\ op' = "from_seqv"
        /\ arg' = v
        /\ ret' = SeqMarked_from_SeqV(v)
        /\ calls' = <<>>
        /\ UNCHANGED <<a, m, sv, given>>

\* `let x: SeqV<M, T> = seq_data.into()`
MetaSeqVFromSeqData ==
    \E sd \in MetaSeqDataSet :
        /\ op' = "seqv_from_seq_data"
        /\ arg' = sd
        /\ ret' = SeqV_from_SeqData(sd)
        /\ calls' = <<>>
        /\ UNCHANGED <<a, m, sv, given>>

\* `let x: SeqData<(Option<M>, T)> = seqv.into()`
MetaSeqDataFromSeqV ==
    \E v \in SeqVSet :
        /\ op' = "seq_data_from_seqv"
        /\ arg' = v
        /\ ret' = SeqData_from_SeqV(v)
        /\ calls' = <<>>
        /\ UNCHANGED <<a, m, sv, given>>

\* The SeqValue methods of the receiver.
MetaSeq ==
    /\ op' = "seq"
    /\ arg' = NoArg
    /\ ret' = SeqMarked_seq(m)
    /\ calls' = <<>>
    /\ UNCHANGED <<a, m, sv, given>>

MetaValue ==
    /\ op' = "value"
    /\ arg' = NoArg
    /\ ret' = SeqMarked_value(m)
    /\ calls' = <<>>
    /\ UNCHANGED <<a, m, sv, given>>

MetaIntoValue ==
    /\ op' = "into_value"
    /\ arg' = NoArg
    /\ ret' = SeqMarked_into_value(m)
    /\ calls' = <<>>
    /\ UNCHANGED <<a, m, sv, given>>

MetaMeta ==
    /\ op' = "meta"
    /\ arg' = NoArg
    /\ ret' = SeqMarked_meta(m)
    /\ calls' = <<>>
    /\ UNCHANGED <<a, m, sv, given>>

MetaUnpack ==
    /\ op' = "unpack"
    /\ arg' = NoArg
    /\ ret' = SeqMarked_unpack(m)
    /\ calls' = <<>>
    /\ UNCHANGED <<a, m, sv, given>>

\* The SeqValue methods of an Option<SeqV<M, T>>, which is the argument.
OptSeqVSeq ==
    \E o \in OptSeqVSet :
        /\ op' = "Option<SeqV>::seq"
        /\ arg' = o
        /\ ret' = OptionSeqV_seq(o)
        /\ calls' = <<>>
        /\ UNCHANGED <<a, m, sv, given>>

OptSeqVValue ==
    \E o \in OptSeqVSet :
        /\ op' = "Option<SeqV>::value"
        /\ arg' = o
        /\ ret' = OptionSeqV_value(o)
        /\ calls' = <<>>
        /\ UNCHANGED <<a, m, sv, given>>

OptSeqVIntoValue ==
    \E o \in OptSeqVSet :
        /\ op' = "Option<SeqV>::into_value"
        /\ arg' = o
        /\ ret' = OptionSeqV_into_value(o)
        /\ calls' = <<>>
        /\ UNCHANGED <<a, m, sv, given>>

OptSeqVMeta ==
    \E o \in OptSeqVSet :
        /\ op' = "Option<SeqV>::meta"
        /\ arg' = o
        /\ ret' = OptionSeqV_meta(o)
        /\ calls' = <<>>
        /\ UNCHANGED <<a, m, sv, given>>

OptSeqVUnpack ==
    \E o \in OptSeqVSet :
        /\ op' = "Option<SeqV>::unpack"
        /\ arg' = o
        /\ ret' = OptionSeqV_unpack(o)
        /\ calls' = <<>>
        /\ UNCHANGED <<a, m, sv, given>>

NextMeta ==
    \/ MetaNewNormal
    \/ MetaNewTombstone
    \/ MetaIntoOptionSeqV
    \/ MetaFromSeqV
    \/ MetaSeqVFromSeqData
    \/ MetaSeqDataFromSeqV
    \/ MetaSeq
    \/ MetaValue
    \/ MetaIntoValue
    \/ MetaMeta
    \/ MetaUnpack
    \/ OptSeqVSeq
    \/ OptSeqVValue
    \/ OptSeqVIntoValue
    \/ OptSeqVMeta
    \/ OptSeqVUnpack

SpecMeta == Init /\ [][NextMeta]_vars

---------------------------------------------------------------------------
(* The conversions between byte payloads and text payloads.  A conversion  *)
(* consumes the value it is given, so the value is the argument of the     *)
(* call and no receiver is kept.                                           *)

\* `Marked::<(Option<M>, String)>::try_from(marked)`
MarkedStringTryFrom ==
    \E x \in MarkedBytesSet :
        /\ op' = "Marked<String>::try_from"
        /\ arg' = x
        /\ ret' = Marked_String_try_from(x)
        /\ calls' = <<>>
        /\ UNCHANGED <<a, m, sv, given>>

\* `Marked::<(Option<M>, Vec<u8>)>::from(marked)`
MarkedBytesFrom ==
    \E x \in MarkedStringSet :
        /\ op' = "Marked<Vec<u8>>::from"
        /\ arg' = x
        /\ ret' = Marked_Bytes_from(x)
        /\ calls' = <<>>
        /\ UNCHANGED <<a, m, sv, given>>

\* `SeqMarked::<(Option<M>, String)>::try_from(value)`
SeqMarkedStringTryFrom ==
    \E x \in SeqMarkedBytesSet :
        /\ op' = "SeqMarked<String>::try_from"
        /\ arg' = x
        /\ ret' = SeqMarked_String_try_from(x)
        /\ calls' = <<>>
        /\ UNCHANGED <<a, m, sv, given>>

\* `SeqMarked::<(Option<M>, Vec<u8>)>::from(value)`
SeqMarkedBytesFrom ==
    \E x \in SeqMarkedStringSet :
        /\ op' = "SeqMarked<Vec<u8>>::from"
        /\ arg' = x
        /\ ret' = SeqMarked_Bytes_from(x)
        /\ calls' = <<>>
        /\ UNCHANGED <<a, m, sv, given>>

NextText ==
    \/ MarkedStringTryFrom
    \/ MarkedBytesFrom
    \/ SeqMarkedStringTryFrom
    \/ SeqMarkedBytesFrom

SpecText == Init /\ [][NextText]_vars

---------------------------------------------------------------------------
(* Expiration.  The metadata type is ExpirableImpl; the value a method is  *)
(* called on is the argument of the call.                                  *)

\* `self.expires_at_ms_opt()` on a SeqValue
ExpiresAtMsOpt ==
    \E i \in ImplSet : \E self \in SeqValueSet(i) :
        /\ op' = "expires_at_ms_opt"
        /\ arg' = self
        /\ ret' = SeqValue_expires_at_ms_opt(self)
        /\ calls' = <<>>
        /\ UNCHANGED <<a, m, sv, given>>

\* `self.expires_at_ms()` on a SeqValue
ExpiresAtMs ==
    \E i \in ImplSet : \E self \in SeqValueSet(i) :
        /\ op' = "expires_at_ms"
        /\ arg' = self
        /\ ret' = SeqValue_expires_at_ms(self)
        /\ calls' = <<>>
        /\ UNCHANGED <<a, m, sv, given>>

\* `self.is_expired(now_ms)` on a SeqValue
IsExpired ==
    \E i \in ImplSet : \E self \in SeqValueSet(i) : \E now_ms \in TimeSet :
        /\ op' = "is_expired"
        /\ arg' = <<self, now_ms>>
        /\ ret' = SeqValue_is_expired(self, now_ms)
        /\ calls' = <<>>
        /\ UNCHANGED <<a, m, sv, given>>

\* `self.expires_at_ms_opt()` on an Expirable
ExpirableExpiresAtMsOpt ==
    \E w \in WrapSet : \E self \in ExpirableSet(w) :
        /\ op' = "Expirable::expires_at_ms_opt"
        /\ arg' = self
        /\ ret' = Expirable_expires_at_ms_opt(self)
        /\ calls' = <<>>
        /\ UNCHANGED <<a, m, sv, given>>

\* `self.expires_at_ms()` on an Expirable
ExpirableExpiresAtMs ==
    \E w \in WrapSet : \E self \in ExpirableSet(w) :
        /\ op' = "Expirable::expires_at_ms"
        /\ arg' = self
        /\ ret' = Expirable_expires_at_ms(self)
        /\ calls' = <<>>
        /\ UNCHANGED <<a, m, sv, given>>

\* `self.seq()` on a SeqValue
SeqValueSeq ==
    \E i \in ImplSet : \E self \in SeqValueSet(i) :
        /\ op' = "SeqValue::seq"
        /\ arg' = self
        /\ ret' = SeqValue_seq(self)
        /\ calls' = <<>>
        /\ UNCHANGED <<a, m, sv, given>>

\* `self.value()` on a SeqValue
SeqValueValue ==
    \E i \in ImplSet : \E self \in SeqValueSet(i) :
        /\ op' = "SeqValue::value"
        /\ arg' = self
        /\ ret' = SeqValue_value(self)
        /\ calls' = <<>>
        /\ UNCHANGED <<a, m, sv, given>>

\* `self.into_value()` on a SeqValue
SeqValueIntoValue ==
    \E i \in ImplSet : \E self \in SeqValueSet(i) :
        /\ op' = "SeqValue::into_value"
        /\ arg' = self
        /\ ret' = SeqValue_into_value(self)
        /\ calls' = <<>>
        /\ UNCHANGED <<a, m, sv, given>>

\* `self.meta()` on a SeqValue
SeqValueMeta ==
    \E i \in ImplSet : \E self \in SeqValueSet(i) :
        /\ op' = "SeqValue::meta"
        /\ arg' = self
        /\ ret' = SeqValue_meta(self)
        /\ calls' = <<>>
        /\ UNCHANGED <<a, m, sv, given>>

\* `self.unpack()` on a SeqValue
SeqValueUnpack ==
    \E i \in ImplSet : \E self \in SeqValueSet(i) :
        /\ op' = "SeqValue::unpack"
        /\ arg' = self
        /\ ret' = SeqValue_unpack(self)
        /\ calls' = <<>>
        /\ UNCHANGED <<a, m, sv, given>>

NextExpire ==
    \/ ExpiresAtMsOpt
    \/ ExpiresAtMs
    \/ IsExpired
    \/ ExpirableExpiresAtMsOpt
    \/ ExpirableExpiresAtMs
    \/ SeqValueSeq
    \/ SeqValueValue
    \/ SeqValueIntoValue
    \/ SeqValueMeta
    \/ SeqValueUnpack

SpecExpire == Init /\ [][NextExpire]_vars

---------------------------------------------------------------------------
(* The operations on a SeqV<M, T>.  A constructor replaces the receiver    *)
(* and a setter, which takes the receiver by value and returns it,         *)
(* replaces it by what it returns.                                         *)

SeqVNew ==
    \E s \in SeqSet, d \in DataSet :
        /\ sv' = SeqV_new(s, d)
        /\ given' = [seq |-> s, meta |-> None, data |-> d]
        /\ op' = "SeqV::new"
        /\ arg' = <<s, d>>
        /\ ret' = SeqV_new(s, d)
        /\ calls' = <<>>
        /\ UNCHANGED <<a, m>>

SeqVNewWithMeta ==
    \E s \in SeqSet, mt \in OptMetaSet, d \in DataSet :
        /\ sv' = SeqV_new_with_meta(s, mt, d)
        /\ given' = [seq |-> s, meta |-> mt, data |-> d]
        /\ op' = "SeqV::new_with_meta"
        /\ arg' = <<s, mt, d>>
        /\ ret' = SeqV_new_with_meta(s, mt, d)
        /\ calls' = <<>>
        /\ UNCHANGED <<a, m>>

WithSeq ==
    \E s \in SeqSet :
        /\ sv' = with_seq(sv, s)
        /\ given' = [given EXCEPT !.seq = s]
        /\ op' = "with_seq"
        /\ arg' = s
        /\ ret' = with_seq(sv, s)
        /\ calls' = <<>>
        /\ UNCHANGED <<a, m>>

WithMeta ==
    \E mt \in OptMetaSet :
        /\ sv' = with_meta(sv, mt)
        /\ given' = [given EXCEPT !.meta = mt]
        /\ op' = "with_meta"
        /\ arg' = mt
        /\ ret' = with_meta(sv, mt)
        /\ calls' = <<>>
        /\ UNCHANGED <<a, m>>

WithValue ==
    \E d \in DataSet :
        /\ sv' = with_value(sv, d)
        /\ given' = [given EXCEPT !.data = d]
        /\ op' = "with_value"
        /\ arg' = d
        /\ ret' = with_value(sv, d)
        /\ calls' = <<>>
        /\ UNCHANGED <<a, m>>

\* `*sv = d`: a write through deref_mut, which is no setter
DerefMut ==
    \E d \in DataSet :
        /\ sv' = SeqV_deref_mut(sv, d)
        /\ op' = "deref_mut"
        /\ arg' = d
        /\ ret' = Ref(d)
        /\ calls' = <<>>
        /\ UNCHANGED <<a, m, given>>

SeqVMap ==
    \E f \in FnSet :
        /\ op' = "SeqV::map"
        /\ arg' = f
        /\ ret' = SeqV_map(sv, f).out
        /\ calls' = SeqV_map(sv, f).invoked
        /\ UNCHANGED <<a, m, sv, given>>

SeqVTryMap ==
    \E f \in TryFnSet :
        /\ op' = "SeqV::try_map"
        /\ arg' = f
        /\ ret' = SeqV_try_map(sv, f).out
        /\ calls' = SeqV_try_map(sv, f).invoked
        /\ UNCHANGED <<a, m, sv, given>>

NextSeqV ==
    \/ SeqVNew
    \/ SeqVNewWithMeta
    \/ WithSeq
    \/ WithMeta
    \/ WithValue
    \/ DerefMut
    \/ SeqVMap
    \/ SeqVTryMap

SpecSeqV == Init /\ [][NextSeqV]_vars

---------------------------------------------------------------------------
(* The operations on SeqData<D> with D = u64.  The values compared or      *)
(* merged are the arguments of the call.                                   *)

SeqDataCmp ==
    \E x \in SeqDataSet, y \in SeqDataSet :
        /\ op' = "SeqData::cmp"
        /\ arg' = <<x, y>>
        /\ ret' = SeqData_cmp(x, y)
        /\ calls' = <<>>
        /\ UNCHANGED <<a, m, sv, given>>

SeqDataOrderKey ==
    \E x \in SeqDataSet :
        /\ op' = "SeqData::order_key"
        /\ arg' = x
        /\ ret' = SeqData_order_key(x)
        /\ calls' = <<>>
        /\ UNCHANGED <<a, m, sv, given>>

SeqDataMax ==
    \E x \in SeqDataSet, y \in SeqDataSet :
        /\ op' = "SeqData::max"
        /\ arg' = <<x, y>>
        /\ ret' = SeqData_max(x, y)
        /\ calls' = <<>>
        /\ UNCHANGED <<a, m, sv, given>>

SeqDataMaxRef ==
    \E x \in SeqDataSet, y \in SeqDataSet :
        /\ op' = "SeqData::max_ref"
        /\ arg' = <<x, y>>
        /\ ret' = SeqData_max_ref(x, y)
        /\ calls' = <<>>
        /\ UNCHANGED <<a, m, sv, given>>

NextSeqData ==
    \/ SeqDataCmp
    \/ SeqDataOrderKey
    \/ SeqDataMax
    \/ SeqDataMaxRef

SpecSeqData == Init /\ [][NextSeqData]_vars

---------------------------------------------------------------------------
(* max and max_ref of SeqMarked<u64>, on the receiver and another value,   *)
(* and of SeqData<u64>, on two values.                                     *)

(* A fold of `SeqMarked::max` over operands that are given one by one; the  *)
(* operands are the argument of the call.                                  *)

\* one more operand
FoldOperand ==
    \E b \in SeqMarkedSet :
        /\ Len(IF op = "operand" THEN arg ELSE <<>>) < MaxFold
        /\ op' = "operand"
        /\ arg' = Append(IF op = "operand" THEN arg ELSE <<>>, b)
        /\ ret' = NoArg
        /\ calls' = <<>>
        /\ UNCHANGED <<a, m, sv, given>>

\* the fold of the operands given, in one of its groupings
FoldMax ==
    /\ op = "operand"
    /\ \E r \in fold_max(arg) :
        /\ op' = "fold_max"
        /\ ret' = r
        /\ calls' = <<>>
        /\ UNCHANGED <<a, m, sv, given, arg>>

NextFold ==
    \/ FoldOperand
    \/ FoldMax

SpecFold == Init /\ [][NextFold]_vars

NextMax ==
    \/ New
    \/ Max
    \/ MaxRef
    \/ SeqDataMax
    \/ SeqDataMaxRef

SpecMax == Init /\ [][NextMax]_vars

---------------------------------------------------------------------------
(* The ordering of SeqMarked<D>. *)

\* The three-level reference comparator: seq first; on equal seqs a
\* TombStone is greater than a Normal and two TombStones are equal; two
\* Normals compare by payload.
RefCmp(x, y) ==
    IF x.seq < y.seq THEN Less
    ELSE IF x.seq > y.seq THEN Greater
    ELSE IF x.marked = TombStone /\ y.marked = TombStone THEN Equal
    ELSE IF x.marked = TombStone THEN Greater
    ELSE IF y.marked = TombStone THEN Less
    ELSE IF x.marked.data < y.marked.data THEN Less
    ELSE IF x.marked.data > y.marked.data THEN Greater
    ELSE Equal

\* C1: comparing two SeqMarked values gives the result of the three-level
\* reference comparator (seq, then TombStone > Normal, then payload); for two
\* Normals, a < b iff a.seq < b.seq, or the seqs are equal and a's payload is
\* less than b's.
C1_CmpIsThreeLevel ==
    /\ op = "cmp" => ret = RefCmp(a, arg)
    /\ op = "partial_cmp" => ret = Some(RefCmp(a, arg))
    /\ (op = "lt" /\ a.marked.tag = "Normal" /\ arg.marked.tag = "Normal") =>
            (ret <=> \/ a.seq < arg.seq
                     \/ a.seq = arg.seq /\ a.marked.data < arg.marked.data)

\* Two Normals of the same seq were compared and the payloads decided.
C1_Witness ==
    /\ op = "cmp"
    /\ a.marked.tag = "Normal" /\ arg.marked.tag = "Normal"
    /\ a.seq = arg.seq /\ a.seq > 0
    /\ a.marked.data < arg.marked.data
    /\ ret = Less

\* C2: tombstone dominance: new_tombstone(seq) is strictly greater than every
\* new_normal(seq, d) and strictly less than every new_normal(seq + 1, d').
C2_TombstoneDominance ==
    /\ (op = "gt" /\ a.marked = TombStone
            /\ arg.marked.tag = "Normal" /\ arg.seq = a.seq) => ret = TRUE
    /\ (op = "lt" /\ a.marked = TombStone
            /\ arg.marked.tag = "Normal" /\ arg.seq = a.seq + 1) => ret = TRUE
    /\ (op = "cmp" /\ a.marked = TombStone /\ arg.marked.tag = "Normal") =>
            /\ arg.seq = a.seq => ret = Greater
            /\ arg.seq = a.seq + 1 => ret = Less

\* A tombstone was found greater than a Normal of its own seq.
C2_Witness ==
    /\ op = "gt"
    /\ a.marked = TombStone /\ a.seq > 0
    /\ arg.marked.tag = "Normal" /\ arg.seq = a.seq
    /\ ret = TRUE

---------------------------------------------------------------------------
(* The two sequence numbers of a SeqMarked, and the absent state. *)

\* C3: internal_seq() returns the stored seq of a Normal and of a TombStone
\* alike; user_seq() returns 0 for every TombStone and the stored seq for a
\* Normal.
C3_InternalAndUserSeq ==
    /\ op = "internal_seq" => InternalSeq_deref(ret) = a.seq
    /\ op = "user_seq" =>
            /\ a.marked = TombStone => ret = 0
            /\ a.marked.tag = "Normal" => ret = a.seq

\* user_seq() was called on a tombstone that stores a positive seq.
C3_Witness ==
    /\ op = "user_seq"
    /\ a.marked = TombStone /\ a.seq > 0
    /\ ret = 0

\* C4: is_absent() and is_not_found() are true exactly when seq is 0 and the
\* value is a TombStone; new_not_found() is new_tombstone(0).
C4_AbsentIffSeqZeroTombstone ==
    /\ op \in {"is_absent", "is_not_found"} =>
            (ret <=> (a.seq = 0 /\ a.marked = TombStone))
    /\ op = "new_not_found" =>
            /\ ret = new_tombstone(0)
            /\ a = ret
            /\ is_absent(ret) /\ is_not_found(ret)
    /\ op \in {"is_absent", "is_not_found"} =>
            /\ a = new_tombstone(0) => ret = TRUE
            /\ (\E s \in 1..MaxSeq : a = new_tombstone(s)) => ret = FALSE
            /\ (\E s \in SeqSet, d \in DataSet : a = new_normal(s, d)) =>
                    ret = FALSE

\* is_absent() was called on a tombstone of seq >= 1 and returned false.
C4_Witness ==
    /\ op = "is_absent"
    /\ a.marked = TombStone /\ a.seq >= 1
    /\ ret = FALSE

---------------------------------------------------------------------------
(* map and try_map. *)

\* C5: a.map(f) keeps a's seq and presence, so its order key is a's; the
\* payload of a Normal becomes f(d), with f invoked once, on d; a TombStone
\* stays a TombStone of the same seq and f is not invoked.
C5_MapKeepsOrderKey ==
    op = "map" =>
        /\ ret.seq = a.seq
        /\ ret.marked.tag = a.marked.tag
        /\ order_key(ret) = order_key(a)
        /\ a.marked.tag = "Normal" =>
                /\ ret.marked = Normal(arg[a.marked.data])
                /\ calls = <<a.marked.data>>
        /\ a.marked = TombStone =>
                /\ ret = new_tombstone(a.seq)
                /\ calls = <<>>

\* A tombstone of positive seq was mapped.
C5_Witness ==
    /\ op = "map"
    /\ a.marked = TombStone /\ a.seq > 0
    /\ ret = new_tombstone(a.seq)
    /\ calls = <<>>

\* C6: try_map(f) has three outcomes: Ok(TombStone of the same seq) without
\* invoking f on a TombStone; exactly Err(e) on a Normal(d) with f(d) = Err(e);
\* Ok(new_normal(seq, u)), what map would give, on a Normal(d) with
\* f(d) = Ok(u).
C6_TryMapOutcomes ==
    op = "try_map" =>
        /\ a.marked = TombStone =>
                /\ ret = Ok(new_tombstone(a.seq))
                /\ calls = <<>>
        /\ (a.marked.tag = "Normal" /\ arg[a.marked.data].tag = "Err") =>
                /\ ret = Err(arg[a.marked.data].e)
                /\ calls = <<a.marked.data>>
        /\ (a.marked.tag = "Normal" /\ arg[a.marked.data].tag = "Ok") =>
                /\ ret.tag = "Ok"
                /\ ret.v = new_normal(a.seq, arg[a.marked.data].v)
                /\ ret.v = map(a, [d \in DataSet |-> arg[a.marked.data].v]).out
                /\ calls = <<a.marked.data>>

\* The closure failed on the payload of a Normal and try_map returned its error.
C6_Witness ==
    /\ op = "try_map"
    /\ a.marked.tag = "Normal"
    /\ arg[a.marked.data] = Err("e2")
    /\ ret = Err("e2")

---------------------------------------------------------------------------
(* The order key and max. *)

\* C7: order_key() returns a SeqMarked<()> of the same seq and presence with
\* no payload, so two order keys are equal iff the seqs are equal and both
\* values are Normal or both are TombStone; the receiver is unchanged.
C7_OrderKeyProjection ==
    /\ [](/\ op = "order_key" =>
                /\ ret.seq = a.seq
                /\ ret.marked.tag = a.marked.tag
                /\ a.marked.tag = "Normal" => ret.marked = Normal(Unit)
                /\ a.marked = TombStone => ret = new_tombstone(a.seq)
          /\ op = "order_key_eq" =>
                (ret <=> (a.seq = arg.seq /\ a.marked.tag = arg.marked.tag)))
    /\ [][op' = "order_key" => a' = a]_vars

\* Two Normals of the same seq and different payloads had equal order keys.
C7_Witness ==
    /\ op = "order_key_eq"
    /\ a.marked.tag = "Normal" /\ arg.marked.tag = "Normal"
    /\ a.seq = arg.seq
    /\ a.marked.data # arg.marked.data
    /\ ret = TRUE

\* x's order key is greater than y's: a larger seq, or the same seq with x a
\* TombStone and y a Normal.
KeyGreater(x, y) ==
    \/ x.seq > y.seq
    \/ x.seq = y.seq /\ x.marked = TombStone /\ y.marked.tag = "Normal"

\* C8: max(a, b) and max_ref(&a, &b) return a exactly when a's order key is
\* greater than b's and b otherwise, ties included: the result is one of the
\* operands, no operand's order key is greater than the result's, and
\* max_ref refers to the operand max returns.
C8_MaxByOrderKey ==
    /\ op = "max" =>
            /\ ret = IF KeyGreater(a, arg) THEN a ELSE arg
            /\ ret \in {a, arg}
            /\ ~KeyGreater(a, ret) /\ ~KeyGreater(arg, ret)
    /\ op = "max_ref" =>
            /\ ret = IF KeyGreater(a, arg) THEN 1 ELSE 2
            /\ deref(ret, a, arg) = max(a, arg)
            /\ ~KeyGreater(a, deref(ret, a, arg))
            /\ ~KeyGreater(arg, deref(ret, a, arg))

\* max was called on two values of equal order keys, the first with the
\* larger payload, and returned the second.
C8_Witness ==
    /\ op = "max"
    /\ a.marked.tag = "Normal" /\ arg.marked.tag = "Normal"
    /\ a.seq = arg.seq
    /\ a.marked.data > arg.marked.data
    /\ ret = arg

---------------------------------------------------------------------------
(* The conversion lattice. *)

\* C9: SeqMarked<D> converts to None when it is a TombStone and to
\* Some(SeqData) of the same seq and payload when it is a Normal; SeqData<D>
\* converts to a Normal of the same seq and payload.  So SeqMarked -> SeqData
\* -> SeqMarked is the identity on Normals and SeqData -> SeqMarked ->
\* Option<SeqData> is Some of the original.
C9_SeqMarkedSeqDataRoundTrip ==
    /\ op = "into_option_seq_data" =>
            /\ a.marked = TombStone => ret = None
            /\ a.marked.tag = "Normal" =>
                    /\ ret.tag = "Some"
                    /\ ret.v.seq = a.seq
                    /\ ret.v.data = a.marked.data
                    /\ SeqMarked_from_SeqData(ret.v) = a
    /\ op = "from_seq_data" =>
            /\ ret.marked.tag = "Normal"
            /\ ret.seq = arg.seq
            /\ ret.marked.data = arg.data
            /\ Option_SeqData_from(ret) = Some(arg)

\* A Normal of positive seq was converted to Some(SeqData).
C9_Witness ==
    /\ op = "into_option_seq_data"
    /\ a.marked.tag = "Normal" /\ a.seq > 0
    /\ ret.tag = "Some"
    /\ SeqMarked_from_SeqData(ret.v) = a

\* C10: SeqMarked<(Option<M>, T)> converts to None when it is a TombStone,
\* whatever its seq, and to Some(SeqV) of the same seq, meta and data when it
\* is a Normal; SeqV<M, T> converts to a Normal of the same seq, meta and
\* data.  So SeqV -> SeqMarked -> Option<SeqV> is Some of the original.
C10_SeqMarkedSeqVRoundTrip ==
    /\ op = "into_option_seqv" =>
            /\ m.marked = TombStone => ret = None
            /\ m.marked.tag = "Normal" =>
                    /\ ret.tag = "Some"
                    /\ ret.v.seq = m.seq
                    /\ ret.v.meta = m.marked.data[1]
                    /\ ret.v.data = m.marked.data[2]
    /\ op = "from_seqv" =>
            /\ ret.marked.tag = "Normal"
            /\ ret.seq = arg.seq
            /\ ret.marked.data[1] = arg.meta
            /\ ret.marked.data[2] = arg.data
            /\ Option_SeqV_from(ret) = Some(arg)

\* A SeqV of positive seq that has metadata was converted to a SeqMarked.
C10_Witness ==
    /\ op = "from_seqv"
    /\ arg.seq > 0 /\ arg.meta # None
    /\ ret.marked.tag = "Normal"
    /\ Option_SeqV_from(ret) = Some(arg)

\* C11: SeqData<(Option<M>, T)> converts to the SeqV of the same seq, meta
\* and data, and SeqV<M, T> converts back to the SeqData of the same seq and
\* payload (meta, data): each conversion is the inverse of the other.
C11_SeqDataSeqVInverse ==
    /\ op = "seqv_from_seq_data" =>
            /\ ret.seq = arg.seq
            /\ ret.meta = arg.data[1]
            /\ ret.data = arg.data[2]
            /\ SeqData_from_SeqV(ret) = arg
    /\ op = "seq_data_from_seqv" =>
            /\ ret.seq = arg.seq
            /\ ret.data[1] = arg.meta
            /\ ret.data[2] = arg.data
            /\ SeqV_from_SeqData(ret) = arg

\* A SeqData of positive seq whose payload has metadata became a SeqV.
C11_Witness ==
    /\ op = "seqv_from_seq_data"
    /\ arg.seq > 0 /\ arg.data[1] # None
    /\ ret.meta = arg.data[1]
    /\ SeqData_from_SeqV(ret) = arg

---------------------------------------------------------------------------
(* Byte payloads and text payloads. *)

\* C12: a text value converted to its byte form and back is the value it
\* was: the conversion back succeeds with the same seq, presence, metadata
\* and string, and a TombStone is a TombStone in both forms.
C12_TextBytesTextRoundTrip ==
    /\ op = "Marked<Vec<u8>>::from" =>
            /\ Marked_String_try_from(ret) = Ok(arg)
            /\ (arg = TombStone) <=> (ret = TombStone)
    /\ op = "SeqMarked<Vec<u8>>::from" =>
            /\ SeqMarked_String_try_from(ret) = Ok(arg)
            /\ ret.seq = arg.seq
            /\ is_tombstone(arg) <=> is_tombstone(ret)

\* A text with a char of two bytes, under metadata, went to bytes and back.
C12_Witness ==
    /\ op = "SeqMarked<Vec<u8>>::from"
    /\ is_normal(arg)
    /\ arg.marked.data[1] # None
    /\ Len(ret.marked.data[2]) > Len(arg.marked.data[2])
    /\ SeqMarked_String_try_from(ret) = Ok(arg)

\* a byte string is valid UTF-8 when it is the encoding of some text; the
\* texts of CharSet are all that encode to bytes of ByteSet
ValidUtf8(bytes) ==
    \E s \in UNION {[1..n -> CharSet] : n \in 0..Len(bytes)} :
        String_into_bytes(s) = bytes

\* C13: the conversion from bytes to text fails, with an error of kind
\* InvalidData and nothing else, exactly for a Normal whose bytes are not
\* valid UTF-8; a TombStone converts to a TombStone of the same seq and a
\* Normal of valid bytes to a Normal of the same seq and metadata.
C13_InvalidDataIffNormalInvalidUtf8 ==
    /\ op = "Marked<String>::try_from" =>
            /\ ret.tag = "Err" <=>
                   (arg # TombStone /\ ~ValidUtf8(arg.data[2]))
            /\ ret.tag = "Err" => ret.e.kind = "InvalidData"
            /\ arg = TombStone => ret = Ok(TombStone)
            /\ (arg # TombStone /\ ValidUtf8(arg.data[2])) =>
                   /\ ret.tag = "Ok"
                   /\ ret.v # TombStone
                   /\ ret.v.data[1] = arg.data[1]
                   /\ String_into_bytes(ret.v.data[2]) = arg.data[2]
    /\ op = "SeqMarked<String>::try_from" =>
            /\ ret.tag = "Err" <=>
                   (is_normal(arg) /\ ~ValidUtf8(arg.marked.data[2]))
            /\ ret.tag = "Err" => ret.e.kind = "InvalidData"
            /\ is_tombstone(arg) => ret = Ok(new_tombstone(arg.seq))
            /\ (is_normal(arg) /\ ValidUtf8(arg.marked.data[2])) =>
                   /\ ret.tag = "Ok"
                   /\ is_normal(ret.v)
                   /\ ret.v.seq = arg.seq
                   /\ ret.v.marked.data[1] = arg.marked.data[1]
                   /\ String_into_bytes(ret.v.marked.data[2])
                          = arg.marked.data[2]

\* A Normal whose bytes start well and end with a byte of no UTF-8 text
\* was refused.
C13_Witness ==
    /\ op = "SeqMarked<String>::try_from"
    /\ is_normal(arg)
    /\ arg.marked.data[2] = <<65, 255>>
    /\ ret.tag = "Err"
    /\ ret.e.kind = "InvalidData"

---------------------------------------------------------------------------
(* The SeqValue view. *)

\* C14: as a SeqValue, a SeqMarked<(Option<M>, T)> has the seq user_seq()
\* (its stored seq when Normal, 0 when TombStone), the value of its payload
\* when Normal and none when TombStone, the metadata of its payload when
\* Normal (none when the payload has none) and none when TombStone, and
\* unpacks to (seq(), into_value()), which is (0, None) for every TombStone.
C14_SeqMarkedSeqValueView ==
    /\ op = "seq" =>
           /\ ret = user_seq(m)
           /\ is_normal(m) => ret = m.seq
           /\ is_tombstone(m) => ret = 0
    /\ op = "value" =>
           /\ is_normal(m) => ret = Some(Ref(m.marked.data[2]))
           /\ is_tombstone(m) => ret = None
    /\ op = "into_value" =>
           /\ is_normal(m) => ret = Some(m.marked.data[2])
           /\ is_tombstone(m) => ret = None
    /\ op = "meta" =>
           /\ (is_normal(m) /\ m.marked.data[1] # None) =>
                  ret = Some(Ref(m.marked.data[1].v))
           /\ (is_normal(m) /\ m.marked.data[1] = None) => ret = None
           /\ is_tombstone(m) => ret = None
    /\ op = "unpack" =>
           /\ ret = <<SeqMarked_seq(m), SeqMarked_into_value(m)>>
           /\ is_tombstone(m) => ret = <<0, None>>

\* A TombStone of positive seq was unpacked.
C14_Witness ==
    /\ op = "unpack"
    /\ is_tombstone(m)
    /\ m.seq > 0
    /\ ret = <<0, None>>

\* C15: as a SeqValue, the Option<SeqV> None has seq 0, no value, no
\* metadata and unpacks to (0, None); Some(v) answers every method as v does:
\* its seq is v.seq, its value v.data, its metadata v.meta.
C15_OptionSeqVSeqValueView ==
    /\ op = "Option<SeqV>::seq" =>
           /\ arg = None => ret = 0
           /\ arg # None => ret = SeqV_seq(arg.v) /\ ret = arg.v.seq
    /\ op = "Option<SeqV>::value" =>
           /\ arg = None => ret = None
           /\ arg # None =>
                  ret = SeqV_value(arg.v) /\ ret = Some(Ref(arg.v.data))
    /\ op = "Option<SeqV>::into_value" =>
           /\ arg = None => ret = None
           /\ arg # None =>
                  ret = SeqV_into_value(arg.v) /\ ret = Some(arg.v.data)
    /\ op = "Option<SeqV>::meta" =>
           /\ arg = None => ret = None
           /\ arg # None => ret = SeqV_meta(arg.v)
           /\ (arg # None /\ arg.v.meta = None) => ret = None
           /\ (arg # None /\ arg.v.meta # None) =>
                  ret = Some(Ref(arg.v.meta.v))
    /\ op = "Option<SeqV>::unpack" =>
           /\ arg = None => ret = <<0, None>>
           /\ arg # None => ret = SeqV_unpack(arg.v)

\* The seq of a Some(v) of positive seq was asked.
C15_Witness ==
    /\ op = "Option<SeqV>::seq"
    /\ arg # None
    /\ arg.v.seq > 0
    /\ ret = arg.v.seq

---------------------------------------------------------------------------
(* Expiration. *)

\* the metadata a SeqValue holds, read from its fields
MetaOf(self) ==
    CASE "marked" \in DOMAIN self ->
             IF self.marked.tag = "Normal" THEN self.marked.data[1] ELSE None
      [] "data" \in DOMAIN self -> self.meta
      [] "value" \in DOMAIN self -> self.meta
      [] "tag" \in DOMAIN self -> IF self = None THEN None ELSE self.v.meta

\* a SeqValue has an expiration: it has metadata and the metadata has one
HasExpiration(self) ==
    MetaOf(self) # None /\ MetaOf(self).v.expires_at_ms # None

\* C16: expires_at_ms() of a SeqValue is the expiration of its metadata when
\* it has metadata with an expiration and u64::MAX otherwise, which is
\* expires_at_ms_opt().unwrap_or(u64::MAX); expires_at_ms_opt() is None
\* exactly when there is no metadata or the metadata has no expiration.
C16_ExpiresAtMsOrMax ==
    /\ op = "expires_at_ms" =>
           /\ HasExpiration(arg) => ret = MetaOf(arg).v.expires_at_ms.v
           /\ ~HasExpiration(arg) => ret = U64Max
           /\ ret = Option_unwrap_or(SeqValue_expires_at_ms_opt(arg), U64Max)
    /\ op = "expires_at_ms_opt" =>
           /\ ret = None <=> ~HasExpiration(arg)
           /\ HasExpiration(arg) => ret = MetaOf(arg).v.expires_at_ms

\* The expiration of a Normal SeqMarked whose metadata has no expiration
\* was asked.
C16_Witness ==
    /\ op = "expires_at_ms"
    /\ "marked" \in DOMAIN arg
    /\ MetaOf(arg) # None
    /\ ~HasExpiration(arg)
    /\ ret = U64Max

\* C17: is_expired(now_ms) is expires_at_ms() < now_ms: a value that expires
\* at now_ms is not expired, and a value without expiration is not expired at
\* any instant up to u64::MAX.
C17_IsExpiredStrictlyBefore ==
    op = "is_expired" =>
        /\ ret = (SeqValue_expires_at_ms(arg[1]) < arg[2])
        /\ HasExpiration(arg[1]) =>
               ret = (MetaOf(arg[1]).v.expires_at_ms.v < arg[2])
        /\ (HasExpiration(arg[1])
                /\ MetaOf(arg[1]).v.expires_at_ms.v = arg[2]) => ret = FALSE
        /\ ~HasExpiration(arg[1]) => ret = FALSE

\* A value was asked at the very instant it expires, before u64::MAX.
C17_Witness ==
    /\ op = "is_expired"
    /\ HasExpiration(arg[1])
    /\ MetaOf(arg[1]).v.expires_at_ms.v = arg[2]
    /\ arg[2] < U64Max
    /\ ret = FALSE

\* the ExpirableImpl inside an Expirable value, none inside None
Unwrapped(self) ==
    CASE "expires_at_ms" \in DOMAIN self -> Some(self)
      [] "ref" \in DOMAIN self -> Some(self.ref)
      [] "tag" \in DOMAIN self ->
             IF self = None THEN None
             ELSE IF "ref" \in DOMAIN self.v THEN Some(self.v.ref)
             ELSE Some(self.v)

\* C18: a reference and a Some answer expires_at_ms_opt() and
\* expires_at_ms() as the value inside does, None answers None and
\* u64::MAX, and expires_at_ms() is expires_at_ms_opt().unwrap_or(u64::MAX).
C18_ExpirableLiftsThroughWrappers ==
    /\ op = "Expirable::expires_at_ms_opt" =>
           /\ Unwrapped(arg) # None =>
                  ret = ExpirableImpl_expires_at_ms_opt(Unwrapped(arg).v)
           /\ Unwrapped(arg) = None => ret = None
    /\ op = "Expirable::expires_at_ms" =>
           /\ Unwrapped(arg) # None =>
                  ret = Option_unwrap_or(Unwrapped(arg).v.expires_at_ms, U64Max)
           /\ Unwrapped(arg) = None => ret = U64Max
           /\ ret = Option_unwrap_or(Expirable_expires_at_ms_opt(arg), U64Max)

\* The expiration of the Option None was asked.
C18_Witness ==
    /\ op = "Expirable::expires_at_ms_opt"
    /\ arg = None
    /\ ret = None

---------------------------------------------------------------------------
(* SeqV<M, T>. *)

\* C19: SeqV::new stores its seq and data with no metadata and
\* SeqV::new_with_meta stores its three arguments; each setter with_seq,
\* with_meta, with_value replaces its one field and leaves the other two as
\* they were, so that after constructor and setter calls every field holds
\* the value last given for it: seq and meta always, and data from the call
\* that gave it for as long as no write through deref_mut replaces it.
C19_SeqVBuilderSetsOneField ==
    /\ [](/\ sv.seq = given.seq
          /\ sv.meta = given.meta
          /\ op = "SeqV::new" =>
                 sv = [seq |-> arg[1], meta |-> None, data |-> arg[2]]
          /\ op = "SeqV::new_with_meta" =>
                 sv = [seq |-> arg[1], meta |-> arg[2], data |-> arg[3]])
    /\ [][/\ op' = "with_seq" =>
                 sv'.seq = arg' /\ sv'.meta = sv.meta /\ sv'.data = sv.data
          /\ op' = "with_meta" =>
                 sv'.meta = arg' /\ sv'.seq = sv.seq /\ sv'.data = sv.data
          /\ op' = "with_value" =>
                 sv'.data = arg' /\ sv'.seq = sv.seq /\ sv'.meta = sv.meta
          /\ op' \in {"SeqV::new", "SeqV::new_with_meta", "with_value"} =>
                 sv'.data = given'.data
          /\ sv.data = given.data /\ op' # "deref_mut" =>
                 sv'.data = given'.data]_vars

\* with_seq gave a new seq to a SeqV that has metadata.
C19_Witness ==
    /\ op = "with_seq"
    /\ sv.meta # None
    /\ sv.seq = arg
    /\ sv.seq > 0

\* C20: SeqV::map and SeqV::try_map give f the data and return a SeqV of the
\* same seq and the same metadata whose data is what f returned; when f
\* returns Err(e), try_map returns Err(e) and no SeqV.
C20_SeqVMapKeepsSeqAndMeta ==
    /\ op = "SeqV::map" =>
           /\ calls = <<sv.data>>
           /\ ret = [seq |-> sv.seq, meta |-> sv.meta, data |-> arg[sv.data]]
    /\ op = "SeqV::try_map" =>
           /\ calls = <<sv.data>>
           /\ arg[sv.data].tag = "Err" => ret = Err(arg[sv.data].e)
           /\ arg[sv.data].tag = "Ok" =>
                  ret = Ok([seq |-> sv.seq, meta |-> sv.meta,
                            data |-> arg[sv.data].v])

\* map changed the data of a SeqV of positive seq that has metadata.
C20_Witness ==
    /\ op = "SeqV::map"
    /\ sv.seq > 0
    /\ sv.meta # None
    /\ ret.data # sv.data
    /\ ret.meta = sv.meta

---------------------------------------------------------------------------
(* SeqData<D> and its embedding into SeqMarked<D>. *)

\* C21: SeqData is ordered by seq and then by data, its order key is the
\* Normal order key of its seq, and both are what the SeqMarked it converts
\* to gives: the same comparison result and the same order key.
C21_SeqDataOrderAgreesWithEmbedding ==
    /\ op = "SeqData::cmp" =>
           /\ ret = IF arg[1].seq < arg[2].seq THEN Less
                    ELSE IF arg[1].seq > arg[2].seq THEN Greater
                    ELSE IF arg[1].data < arg[2].data THEN Less
                    ELSE IF arg[1].data > arg[2].data THEN Greater
                    ELSE Equal
           /\ ret = SeqMarked_cmp(SeqMarked_from_SeqData(arg[1]),
                                  SeqMarked_from_SeqData(arg[2]))
    /\ op = "SeqData::order_key" =>
           /\ ret.seq = arg.seq
           /\ ret.marked = Normal(Unit)
           /\ ret = order_key(SeqMarked_from_SeqData(arg))

\* Two SeqData were compared of which the first has the smaller seq and the
\* larger data.
C21_Witness ==
    /\ op = "SeqData::cmp"
    /\ arg[1].seq < arg[2].seq
    /\ arg[1].data > arg[2].data
    /\ ret = Less

---------------------------------------------------------------------------
(* Presence accessors. *)

\* C22: a SeqMarked is normal or a tombstone and never both; data_ref() and
\* into_data() give its payload when it is normal and nothing when it is a
\* tombstone; into_parts() gives the seq and the marked it was built from.
C22_PresenceAccessorsAgree ==
    /\ op = "is_normal" =>
           /\ ret = (a.marked.tag = "Normal")
           /\ ret = ~is_tombstone(a)
    /\ op = "is_tombstone" =>
           /\ ret = (a.marked.tag = "TombStone")
           /\ ret = ~is_normal(a)
    /\ op = "data_ref" =>
           /\ a.marked.tag = "Normal" => ret = Some(Ref(a.marked.data))
           /\ a.marked.tag = "TombStone" => ret = None
           /\ (ret # None) = is_normal(a)
    /\ op = "into_data" =>
           /\ a.marked.tag = "Normal" => ret = Some(a.marked.data)
           /\ a.marked.tag = "TombStone" => ret = None
           /\ (ret = None) = is_tombstone(a)
    /\ op = "into_parts" => ret = <<a.seq, a.marked>>
    /\ op = "new" => into_parts(ret) = arg

\* A tombstone of positive seq was asked whether it is normal.
C22_Witness ==
    /\ op = "is_normal"
    /\ a.seq > 0
    /\ a.marked = TombStone
    /\ ret = FALSE

---------------------------------------------------------------------------
(* The least and the greatest order key. *)

\* C23: zero() is the Normal order key of seq 0 and no order key is less;
\* max_value() is the TombStone order key of seq u64::MAX and no order key
\* is greater.
C23_ZeroAndMaxValueBoundOrderKeys ==
    /\ op = "zero_le_order_key" =>
           /\ ret = TRUE
           /\ zero.seq = 0 /\ zero.marked = Normal(Unit)
           /\ (order_key(arg) = zero) = (arg.seq = 0 /\ is_normal(arg))
    /\ op = "order_key_le_max_value" =>
           /\ ret = TRUE
           /\ max_value.seq = U64Max /\ max_value.marked = TombStone
           /\ (order_key(arg) = max_value)
                  = (arg.seq = U64Max /\ is_tombstone(arg))

\* The order key of the TombStone of seq u64::MAX was compared with
\* max_value().
C23_Witness ==
    /\ op = "order_key_le_max_value"
    /\ arg = new_tombstone(U64Max)
    /\ ret = TRUE

---------------------------------------------------------------------------
(* Borrowing accessors. *)

\* C24: as_ref(), data_ref(), order_key(), internal_seq(), user_seq() and
\* max_ref() leave the receiver as it was; as_ref() returns a value of the
\* same seq and presence whose payload refers to the receiver's payload, and
\* the clone of it is equal to the receiver, Normal or TombStone.
C24_BorrowingLeavesReceiver ==
    /\ [](/\ op = "as_ref" =>
                /\ ret.seq = a.seq
                /\ a.marked.tag = "Normal" =>
                       ret.marked = Normal(Ref(a.marked.data))
                /\ a.marked = TombStone => ret.marked = TombStone
          /\ op = "cloned" => ret = a)
    /\ [][op' \in {"as_ref", "data_ref", "order_key", "internal_seq",
                   "user_seq", "max_ref"} => a' = a]_vars

\* The borrowed view of a TombStone of positive seq was cloned.
C24_Witness ==
    /\ op = "cloned"
    /\ a.marked = TombStone
    /\ a.seq > 0
    /\ ret = a

---------------------------------------------------------------------------
(* max in the full order. *)

\* The statement that max and max_ref return a value that is greater than or
\* equal to both operands in the full order of SeqMarked (seq, then
\* TombStone > Normal, then payload), and of SeqData (seq, then data).
C25_MaxIsGreatestInFullOrder ==
    /\ op = "max" => SeqMarked_ge(ret, a) /\ SeqMarked_ge(ret, arg)
    /\ op = "max_ref" =>
           /\ SeqMarked_ge(deref(ret, a, arg), a)
           /\ SeqMarked_ge(deref(ret, a, arg), arg)
    /\ op = "SeqData::max" =>
           /\ SeqData_cmp(ret, arg[1]) # Less
           /\ SeqData_cmp(ret, arg[2]) # Less
    /\ op = "SeqData::max_ref" =>
           /\ SeqData_cmp(arg[ret], arg[1]) # Less
           /\ SeqData_cmp(arg[ret], arg[2]) # Less

\* two Normal SeqMarked of the same seq of which the first has the greater
\* payload
PayloadTie(x, y) ==
    /\ x.seq = y.seq
    /\ x.marked.tag = "Normal" /\ y.marked.tag = "Normal"
    /\ x.marked.data > y.marked.data

\* two SeqData of the same seq of which the first has the greater data
DataTie(x, y) == x.seq = y.seq /\ x.data > y.data

\* C25: max and max_ref return an operand whose order key is greater than or
\* equal to the order keys of both operands.  The operand returned is greater
\* than or equal to both in the full order, except when both are Normal of
\* the same seq and the first has the greater payload: then the second is
\* returned, which is less than the first.  The same holds of SeqData.
C25_MaxIsGreatestUnlessPayloadTie ==
    /\ op = "max" =>
           /\ OrderKey_ge(order_key(ret), order_key(a))
           /\ OrderKey_ge(order_key(ret), order_key(arg))
           /\ ~PayloadTie(a, arg) =>
                  SeqMarked_ge(ret, a) /\ SeqMarked_ge(ret, arg)
           /\ PayloadTie(a, arg) => ret = arg /\ SeqMarked_lt(ret, a)
    /\ op = "max_ref" =>
           /\ OrderKey_ge(order_key(deref(ret, a, arg)), order_key(a))
           /\ OrderKey_ge(order_key(deref(ret, a, arg)), order_key(arg))
           /\ ~PayloadTie(a, arg) =>
                  /\ SeqMarked_ge(deref(ret, a, arg), a)
                  /\ SeqMarked_ge(deref(ret, a, arg), arg)
           /\ PayloadTie(a, arg) => ret = 2
    /\ op = "SeqData::max" =>
           /\ ret.seq >= arg[1].seq /\ ret.seq >= arg[2].seq
           /\ ~DataTie(arg[1], arg[2]) =>
                  /\ SeqData_cmp(ret, arg[1]) # Less
                  /\ SeqData_cmp(ret, arg[2]) # Less
           /\ DataTie(arg[1], arg[2]) =>
                  ret = arg[2] /\ SeqData_cmp(ret, arg[1]) = Less
    /\ op = "SeqData::max_ref" =>
           /\ arg[ret].seq >= arg[1].seq /\ arg[ret].seq >= arg[2].seq
           /\ ~DataTie(arg[1], arg[2]) =>
                  /\ SeqData_cmp(arg[ret], arg[1]) # Less
                  /\ SeqData_cmp(arg[ret], arg[2]) # Less
           /\ DataTie(arg[1], arg[2]) => ret = 2

\* SeqData::max was given two values of the same seq, the first with the
\* greater data, and returned the second.
C25_Witness ==
    /\ op = "SeqData::max"
    /\ DataTie(arg[1], arg[2])
    /\ ret = arg[2]

---------------------------------------------------------------------------
(* Arithmetic on InternalSeq. *)

\* C26: InternalSeq + rhs and InternalSeq += rhs succeed for every
\* InternalSeq and every u64 rhs, sums above u64::MAX included, and give the
\* InternalSeq of seq + rhs.
C26_InternalSeqAddIsTotal ==
    /\ op = "add" => ret = Returns(InternalSeq_new(arg[1].seq + arg[2]))
    /\ op = "add_assign" =>
           ret = Returns(InternalSeq_new(arg[1].seq + arg[2]))

---------------------------------------------------------------------------
(* A SeqMarked<(Option<M>, T)> and the Option<SeqV<M, T>> made from it. *)

\* C27: every SeqValue method (seq, value, into_value, meta, unpack,
\* expires_at_ms_opt, expires_at_ms, is_expired) called on a
\* SeqMarked<(Option<M>, T)>, normal or tombstone of any seq, answers what the
\* same method answers on the Option<SeqV<M, T>> converted from it.
C27_SeqMarkedAnswersAsItsOptionSeqV ==
    /\ op = "SeqValue::seq" /\ "marked" \in DOMAIN arg =>
           ret = SeqValue_seq(Option_SeqV_from(arg))
    /\ op = "SeqValue::value" /\ "marked" \in DOMAIN arg =>
           ret = SeqValue_value(Option_SeqV_from(arg))
    /\ op = "SeqValue::into_value" /\ "marked" \in DOMAIN arg =>
           ret = SeqValue_into_value(Option_SeqV_from(arg))
    /\ op = "SeqValue::meta" /\ "marked" \in DOMAIN arg =>
           ret = SeqValue_meta(Option_SeqV_from(arg))
    /\ op = "SeqValue::unpack" /\ "marked" \in DOMAIN arg =>
           ret = SeqValue_unpack(Option_SeqV_from(arg))
    /\ op = "expires_at_ms_opt" /\ "marked" \in DOMAIN arg =>
           ret = SeqValue_expires_at_ms_opt(Option_SeqV_from(arg))
    /\ op = "expires_at_ms" /\ "marked" \in DOMAIN arg =>
           ret = SeqValue_expires_at_ms(Option_SeqV_from(arg))
    /\ op = "is_expired" =>
           ("marked" \in DOMAIN arg[1] =>
               ret = SeqValue_is_expired(Option_SeqV_from(arg[1]), arg[2]))

\* A normal SeqMarked with an expiration has answered its metadata.
C27_Witness ==
    /\ op = "SeqValue::meta"
    /\ "marked" \in DOMAIN arg
    /\ arg.seq >= 1
    /\ is_normal(arg)
    /\ ret = Some(Ref(ExpirableImpl(Some(1))))

---------------------------------------------------------------------------
(* The order of SeqMarked and the order of its projections. *)

\* C28: the projection to the order key is monotone: a <= b implies
\* a.order_key() <= b.order_key(); a.order_key() < b.order_key() implies
\* a < b; and a < b implies a.internal_seq() <= b.internal_seq().
C28_OrderKeyProjectionIsMonotone ==
    /\ op = "le" /\ ret = TRUE =>
           OrderKey_le(order_key(a), order_key(arg))
    /\ op = "lt" /\ OrderKey_lt(order_key(a), order_key(arg)) => ret = TRUE
    /\ op = "lt" /\ ret = TRUE =>
           InternalSeq_le(internal_seq(a), internal_seq(arg))

\* A normal record has compared less than a tombstone of the same seq, and
\* a record less than one of the same order key.
C28_Witness ==
    \/ /\ op = "lt"
       /\ ret = TRUE
       /\ a.seq = arg.seq
       /\ is_normal(a)
       /\ is_tombstone(arg)
    \/ /\ op = "le"
       /\ ret = TRUE
       /\ a # arg
       /\ order_key(a) = order_key(arg)

\* C29: new_not_found() is the smallest tombstone, is less than every
\* SeqMarked of seq >= 1 and greater than every new_normal(0, d); so
\* max(new_not_found(), new_normal(0, d)) is the absent sentinel and
\* max(new_not_found(), x) is x when x has seq >= 1.
C29_NotFoundBetweenSeqZeroAndSeqOne ==
    a = new_not_found =>
        /\ op = "le" /\ is_tombstone(arg) => ret = TRUE
        /\ op = "lt" /\ arg.seq >= 1 => ret = TRUE
        /\ op = "gt" /\ arg.seq = 0 /\ is_normal(arg) => ret = TRUE
        /\ op = "max" /\ arg.seq = 0 /\ is_normal(arg) =>
               ret = new_not_found /\ is_absent(ret)
        /\ op = "max" /\ arg.seq >= 1 => ret = arg

\* The maximum of the absent sentinel and a normal record of seq 0 has been
\* taken.
C29_Witness ==
    /\ op = "max"
    /\ a = new_not_found
    /\ arg.seq = 0
    /\ is_normal(arg)
    /\ is_absent(ret)

---------------------------------------------------------------------------
(* Folds of `SeqMarked::max`. *)

\* C30: the fold of SeqMarked::max over a non-empty finite sequence, in any
\* order of the operands and any grouping, has the greatest order key of the
\* operands; max(a, a) is a; and max(a, b) and max(b, a) have the same order
\* key.
C30_FoldOfMaxHasGreatestOrderKey ==
    op = "fold_max" =>
        /\ \E i \in DOMAIN arg : order_key(ret) = order_key(arg[i])
        /\ \A i \in DOMAIN arg :
               OrderKey_ge(order_key(ret), order_key(arg[i]))
        /\ Len(arg) = 2 /\ arg[1] = arg[2] => ret = arg[1]
        /\ Len(arg) = 2 => order_key(ret) = order_key(max(arg[2], arg[1]))

\* Three operands, the greatest order key first and two of them with the
\* same order key and different payloads, have been folded.
C30_Witness ==
    /\ op = "fold_max"
    /\ Len(arg) = 3
    /\ OrderKey_gt(order_key(arg[1]), order_key(arg[2]))
    /\ order_key(arg[2]) = order_key(arg[3])
    /\ arg[2] # arg[3]
    /\ ret = arg[1]

===========================================================================
